---- MODULE Spec2Model ----
(***************************************************************************)
(* Analytics event ingestion and recent-event query service.               *)
(*                                                                         *)
(* The model covers the per-application recent-event cache (a ring of      *)
(* CacheWindowMinutes one-minute buckets driven by the wall clock), the    *)
(* ingestion handler (enrich, admit to cache, persist), the durable store  *)
(* (one file per event under data/<app>/<date>/<id>.json) and the tiered   *)
(* retrieval path (cache when the start minute is inside the window, a     *)
(* directory scan otherwise).                                              *)
(*                                                                         *)
(* Time is in seconds since the Unix epoch, as time.Time.Unix() gives it.  *)
(***************************************************************************)
EXTENDS Integers, Sequences, FiniteSets, TLC

VARIABLES
    now,        \* the server's wall clock (seconds since the epoch)
    caches,     \* Manager.caches: application id -> EventCache or NoCache
    store,      \* the files under data/: a set of [app, day, event]
    nextId,     \* how many event ids uuid.NewV7 has handed out
    nPosts,     \* how many events the service has been offered
    resp,       \* the response of the call that has just returned
    ticks,      \* how many steps the wall clock has taken
    advanced,   \* application ids whose cache has taken an advance step
    rt,         \* goroutines inside a call: where each is, and the locks
    data,       \* Manager.data.Apps: application id -> App or NoApp
    file,       \* the registry document at Manager.path, or NoFile
    nAdmin,     \* how many registry requests the service has been given
    tokenCache  \* firebase_auth's tokenCache: token -> entry or NoEntry

vars == <<now, caches, store, nextId, nPosts, resp, ticks, advanced, rt,
          data, file, nAdmin, tokenCache>>

----------------------------------------------------------------------------
(* Program constants *)

CacheWindowMinutes == 30

SecondsPerMinute == 60

SecondsPerDay == 86400

\* MaxTimestampDrift = 5 * time.Minute, in seconds
MaxTimestampDrift == 300

\* getEventsFromDay: the most entries a day directory may have
MaxDirEntries == 10000

\* Stands for the zero time.Time (1 January of year 1, which IsZero reports):
\* an instant before every instant the model reaches.
ZeroTime == -2000000000

----------------------------------------------------------------------------
(* Bounds of the model *)

\* The wall clock starts here: twenty seconds into a minute, some minutes
\* before a UTC midnight.
StartTime == 172520

\* A short step of the wall clock, in seconds.
TickSeconds == 60

\* A long step of the wall clock, in seconds: nothing runs for 28 minutes (an
\* idle service, a suspended process).
PauseSeconds == 1680

\* The wall clock takes at most this many steps (whole service).
MaxTicks == 1

\* The wall clock takes at most this many steps (one cache on its own).
MaxCacheTicks == 1

\* At most this many events are offered to the service.
MaxPosts == 1

\* At most this many events are offered to a cache on its own.
MaxAdds == 2

\* Goroutine by goroutine: the wall clock takes at most this many short steps,
\* and at most this many Add and query calls are started.
MaxStepTicks == 1

MaxCalls == 2

\* Where Stop is called too: at most this many Add calls, and at most this
\* many Stop calls.
MaxCallsStopping == 1

MaxStops == 2

\* The ingestion handler on its own accepts at most this many events.
MaxTrackPosts == 1

\* With the registry: at most this many create, update and delete requests,
\* and at most this many events.
MaxAdmin == 2

MaxRegPosts == 1

\* With the ring on its own: a delay of less than a minute, so that the
\* advance task is woken at other seconds of the minute than its ticker's
\* phase; at most this many steps of the clock and this many events.
JitterSeconds == 50

MaxRingTicks == 4

MaxRingAdds == 1

\* With the ring taken once round: at most this many steps of the clock.
MaxWrapTicks == 2

\* With POST /track goroutine by goroutine: at most this many requests.
MaxFlightPosts == 2

\* With the minute conversions on their own: the instants converted lie within
\* this many half seconds of the Unix epoch, on either side.
MaxHalfSeconds == 250

\* With the store scanned across UTC midnight: the clock moves by this many
\* seconds at a time (StartTime is less than that before midnight), at most
\* this many times, and at most this many events are posted.
DiskTickSeconds == 300

MaxDiskTicks == 1

MaxDiskPosts == 1

\* With the admin-auth middleware on its own: token t1 expires this many
\* seconds after StartTime; up to this many seconds pass inside the handler
\* between the validation of a token and the reading of its remaining
\* lifetime; the clock takes at most this many steps and the middleware is
\* given at most this many requests.
TokenLifeSeconds == 90

StallSeconds == 30

MaxAuthTicks == 2

MaxAuthRequests == 2

----------------------------------------------------------------------------
(* Time helpers *)

\* Go's integer division truncates toward zero.
GoDiv(a, b) ==
    IF a >= 0 THEN a \div b ELSE -((-a) \div b)

\* Go's remainder a % b, which has the sign of a.
GoRem(a, b) == a - b * GoDiv(a, b)

\* time.Time.Truncate(time.Minute): rounds down to a whole minute.
TruncateMinute(t) == t - (t % SecondsPerMinute)

\* time.Time.Truncate(24 * time.Hour)
TruncateDay(t) == t - (t % SecondsPerDay)

toMinutesSinceEpoch(t) == GoDiv(t, SecondsPerMinute)

fromMinutesSinceEpoch(minutes) == minutes * SecondsPerMinute

----------------------------------------------------------------------------
(* Values *)

Apps == {"a1", "a2"}

NoCache == [none |-> TRUE]

NoResp == [kind |-> "none"]

\* models.Event, cut to the fields the cache, the store and the query read.
Event(id, ts, app) == [id |-> id, ts |-> ts, app |-> app]

Indices == 0 .. (CacheWindowMinutes - 1)

\* The goroutines that call Stop.
Stoppers == {"s1", "s2"}

\* The bearer tokens clients present: t1 is signed by a Firebase key, names
\* user u1 and carries an exp claim; t2 is not a token Firebase signed; t3 is
\* signed, names user u3 and carries no exp claim.
Tokens == {"t1", "t2", "t3"}

\* No entry for a token in tokenCache.
NoEntry == [none |-> TRUE]

\* cache.New(24*time.Hour, 1*time.Hour), before any Set
NoTokens == [t \in Tokens |-> NoEntry]

\* No goroutine is inside a cache call; the cache's mutex mu and the mutex of
\* stopOnce are free.
Idle ==
    [advPc    |-> "select",     \* the advance task: where it is
     target   |-> 0,            \* advanceEx: target
     mu       |-> [w |-> "none", active |-> FALSE, readers |-> 0],
     qPc      |-> "idle",       \* a query: where it is
     qNested  |-> FALSE,        \* whether it came through getEventsFromCache
     qStart   |-> 0,            \* its startMinutes
     qSnap    |-> [lastMinute |-> 0, currentIndex |-> 0, buckets |-> <<>>],
     wPc      |-> "idle",       \* an Add call: where it is
     wEvent   |-> [id |-> 0, ts |-> 0, app |-> ""],
     sPc      |-> [s \in Stoppers |-> "idle"],
     onceDone |-> FALSE,        \* sync.Once: done
     onceM    |-> "none",       \* sync.Once: who holds its mutex
     closes   |-> 0,            \* how many times close(c.done) has run
     returned |-> {},           \* the goroutines whose Stop call has returned
     stops    |-> 0,            \* how many Stop calls have been started
     calls    |-> 0]            \* how many Add and query calls have been started

EmptyBuckets == [i \in Indices |-> <<>>]

\* The goroutines net/http runs POST /track requests on.
Goroutines == {"g1", "g2"}

\* A goroutine that is not inside PostHandler.
NoFlight == [pc |-> "idle"]

\* The process is serving, no goroutine is inside PostHandler and cachesMu is
\* free; no cache has been made and no event has been offered to one.
Serving ==
    [main    |-> "serving",    \* main and gracefulShutdown: where they are
     mapMu   |-> "none",       \* Manager.cachesMu: the goroutine that holds it
     flight  |-> [g \in Goroutines |-> NoFlight],
     created |-> [a \in Apps |-> 0],   \* NewEventCache calls, by application
     offered |-> {}]           \* Add calls: the event and the cache it went to

----------------------------------------------------------------------------
(* The application registry and its document *)

NoApp == [none |-> TRUE]

NoFile == [none |-> TRUE]

\* Strings that go through encoding/json are sequences of symbols: a letter,
\* "<" (which json.Marshal escapes), "?" (a byte that is not valid UTF-8) and
\* "FFFD" (the replacement character).
RECURSIVE decodeString(_)
\* json.Decoder on a quoted string: an escape is read back, an invalid byte
\* becomes U+FFFD.
decodeString(str) ==
    IF str = <<>> THEN <<>>
    ELSE LET c == Head(str)
         IN  <<IF c = "?" THEN "FFFD" ELSE IF c = "\\u003c" THEN "<" ELSE c>>
                 \o decodeString(Tail(str))

RECURSIVE encodeString(_)
\* json.Marshal of a string: "<" is written as its \\u escape, an invalid byte as
\* U+FFFD.
encodeString(str) ==
    IF str = <<>> THEN <<>>
    ELSE LET c == Head(str)
         IN  <<IF c = "?" THEN "FFFD" ELSE IF c = "<" THEN "\\u003c" ELSE c>>
                 \o encodeString(Tail(str))

\* time.Time.MarshalJSON (RFC 3339): the date and the time of day.
formatTime(t) == <<t \div SecondsPerDay, t % SecondsPerDay>>

\* time.Time.UnmarshalJSON
parseTime(p) == p[1] * SecondsPerDay + p[2]

\* The App a create request makes.
NewApp(id, name, apiKey, t, origins) ==
    [id |-> id, name |-> name, apiKey |-> apiKey, createdAt |-> t,
     origins |-> origins]

\* The member "allowed_origins" of an App in the document: an array of
\* strings.
encodeOrigins(origins) ==
    [k \in 1 .. Len(origins) |-> encodeString(<<origins[k]>>)]

decodeOrigins(list) ==
    [k \in 1 .. Len(list) |-> decodeString(list[k])[1]]

\* An encoding of App whose api_key member is not the key.
encodeAppKeyless(app) ==
    [id              |-> encodeString(<<app.id>>),
     name            |-> encodeString(app.name),
     api_key         |-> encodeString(<<app.id>>),
     created_at      |-> formatTime(app.createdAt),
     allowed_origins |-> encodeOrigins(app.origins)]

\* json.Marshal of an App
encodeApp(app) ==
    [id              |-> encodeString(<<app.id>>),
     name            |-> encodeString(app.name),
     api_key         |-> encodeString(<<app.apiKey>>),
     created_at      |-> formatTime(app.createdAt),
     allowed_origins |-> encodeOrigins(app.origins)]

\* json.Unmarshal of an App
decodeApp(obj) ==
    [id        |-> decodeString(obj.id)[1],
     name      |-> decodeString(obj.name),
     apiKey    |-> decodeString(obj.api_key)[1],
     createdAt |-> parseTime(obj.created_at),
     origins   |-> decodeOrigins(obj.allowed_origins)]

\* Manager.save: the document json.MarshalIndent makes of m.data, an object
\* "apps" with one member per entry of the map.
save(d) ==
    [apps |-> [i \in {a \in Apps : d[a] # NoApp} |-> encodeApp(d[i])]]

\* Manager.load into the empty map NewManager makes.
load(doc) ==
    [a \in Apps |-> IF a \in DOMAIN doc.apps THEN decodeApp(doc.apps[a])
                    ELSE NoApp]

\* No application is registered.
NoApps == [a \in Apps |-> NoApp]

\* fmt.Sprintf("%x", sha256.Sum256(name))[:8]: names that begin alike stand
\* for names whose hashes share their first eight digits.
hashID(name) == IF Head(name) = "x" THEN "a1" ELSE "a2"

\* A registry document written by an earlier run of the service: two
\* applications, created the day before.
Registered ==
    [a \in Apps |->
        IF a = "a1"
        THEN NewApp("a1", <<"x">>, "k1", StartTime - SecondsPerDay, <<"o1">>)
        ELSE NewApp("a2", <<"y">>, "k2", StartTime - SecondsPerDay, <<>>)]

\* Manager.GetAppByAPIKey: the applications with this key (none: invalid key).
GetAppByAPIKey(d, apiKey) ==
    {a \in Apps : d[a] # NoApp /\ d[a].apiKey = apiKey}

----------------------------------------------------------------------------
(* EventCache *)

\* NewEventCache at wall-clock time t: an empty ring whose lastMinute is the
\* current minute plus one, and an advance task that waits for the next
\* minute boundary.
NewEventCache(t) ==
    [buckets      |-> EmptyBuckets,
     currentIndex |-> 0,
     lastMinute   |-> TruncateMinute(t) + SecondsPerMinute,
     done         |-> FALSE,
     task         |-> "wait",
     wake         |-> TruncateMinute(t) + SecondsPerMinute]

\* GetEventsSince: cacheLastMinutes
cacheLastMinutes(c) == toMinutesSinceEpoch(c.lastMinute)

\* The oldest minute Add accepts.
oldestAllowed(c) == c.lastMinute - CacheWindowMinutes * SecondsPerMinute

\* A window one minute longer at its old end.
AcceptsOlder(c, e) ==
    /\ ~(TruncateMinute(e.ts) < oldestAllowed(c) - SecondsPerMinute)
    /\ ~(TruncateMinute(e.ts) > c.lastMinute)

\* A window with no old end.
AcceptsAnyAge(c, e) ==
    ~(TruncateMinute(e.ts) > c.lastMinute)

\* Whether Add keeps the event (neither "too old" nor "too far in future").
Accepts(c, e) ==
    /\ ~(TruncateMinute(e.ts) < oldestAllowed(c))
    /\ ~(TruncateMinute(e.ts) > c.lastMinute)

\* An index that folds the oldest accepted minute onto the oldest bucket of
\* the ring instead of the current one.
AddIndexOldestLast(c, e) ==
    LET diffMinutes == GoDiv(c.lastMinute - TruncateMinute(e.ts), SecondsPerMinute)
        capped == IF diffMinutes > CacheWindowMinutes - 1
                  THEN CacheWindowMinutes - 1 ELSE diffMinutes
    IN  (c.currentIndex - capped + CacheWindowMinutes) % CacheWindowMinutes

\* The bucket Add appends an accepted event to.
AddIndex(c, e) ==
    LET diffMinutes == GoDiv(c.lastMinute - TruncateMinute(e.ts), SecondsPerMinute)
    IN  (c.currentIndex - diffMinutes + CacheWindowMinutes) % CacheWindowMinutes

\* An Add that puts an event newer than lastMinute into the current bucket.
AddClamped(c, e) ==
    IF TruncateMinute(e.ts) > c.lastMinute
    THEN [c EXCEPT !.buckets[c.currentIndex] = Append(@, e)]
    ELSE IF Accepts(c, e)
    THEN [c EXCEPT !.buckets[AddIndex(c, e)] = Append(@, e)]
    ELSE c

\* An Add that puts the event at the front of its bucket.
AddFront(c, e) ==
    IF Accepts(c, e)
    THEN [c EXCEPT !.buckets[AddIndex(c, e)] = <<e>> \o @]
    ELSE c

\* An Add that lets an event newer than lastMinute move the ring on to the
\* event's minute.
AddAdvancing(c, e) ==
    IF TruncateMinute(e.ts) > c.lastMinute
    THEN [c EXCEPT !.currentIndex = (c.currentIndex + 1) % CacheWindowMinutes,
                   !.lastMinute = TruncateMinute(e.ts)]
    ELSE IF Accepts(c, e)
    THEN [c EXCEPT !.buckets[AddIndex(c, e)] = Append(@, e)]
    ELSE c

\* EventCache.Add
Add(c, e) ==
    IF Accepts(c, e)
    THEN [c EXCEPT !.buckets[AddIndex(c, e)] = Append(@, e)]
    ELSE c

\* The bucket GetEventsSince reads at offset i.
BucketIndex(c, i) ==
    (c.currentIndex - i + CacheWindowMinutes) % CacheWindowMinutes

\* A loop over a bucket that keeps every event of it.
SinceFilterNone(bucket, startMinutes) == bucket

\* The events of one bucket GetEventsSince keeps.
SinceFilter(bucket, startMinutes) ==
    SelectSeq(bucket, LAMBDA e : toMinutesSinceEpoch(e.ts) >= startMinutes)

\* The loop of GetEventsSince from offset i on.
RECURSIVE SinceFrom(_, _, _)
SinceFrom(c, startMinutes, i) ==
    IF i >= CacheWindowMinutes THEN <<>>
    ELSE LET bucketMinutes == toMinutesSinceEpoch(c.lastMinute) - i
             here == IF bucketMinutes < startMinutes THEN <<>>
                     ELSE SinceFilter(c.buckets[BucketIndex(c, i)], startMinutes)
         IN  here \o SinceFrom(c, startMinutes, i + 1)

\* EventCache.GetEventsSince
GetEventsSince(c, startMinutes) == SinceFrom(c, startMinutes, 0)

\* An iteration that moves the ring on without clearing the bucket it comes to.
AdvanceStepKeep(c) ==
    [c EXCEPT !.currentIndex = (c.currentIndex + 1) % CacheWindowMinutes,
              !.lastMinute = c.lastMinute + SecondsPerMinute]

\* An iteration that clears the bucket it leaves instead of the one it comes to.
AdvanceStepClearLeft(c) ==
    [c EXCEPT !.currentIndex = (c.currentIndex + 1) % CacheWindowMinutes,
              !.buckets[c.currentIndex] = <<>>,
              !.lastMinute = c.lastMinute + SecondsPerMinute]

\* One iteration of the catch-up loop of advanceEx.
AdvanceStep(c) ==
    LET idx == (c.currentIndex + 1) % CacheWindowMinutes
    IN  [c EXCEPT !.currentIndex = idx,
                  !.buckets[idx] = <<>>,
                  !.lastMinute = c.lastMinute + SecondsPerMinute]

\* A catch-up that takes at most one step, however far lastMinute is behind.
advanceOnce(c, t) ==
    IF c.lastMinute < TruncateMinute(t) + SecondsPerMinute
    THEN AdvanceStep(c)
    ELSE c

\* advanceEx at wall-clock time t: catch up to the current minute plus one.
RECURSIVE advanceEx(_, _)
advanceEx(c, t) ==
    IF c.lastMinute < TruncateMinute(t) + SecondsPerMinute
    THEN advanceEx(AdvanceStep(c), t)
    ELSE c

\* When the ticker (or, for the first catch-up, time.NewTicker) next wakes the
\* advance task after a catch-up done at time t. A ticker drops the ticks a
\* slow receiver misses.
NextWake(c, t) ==
    IF c.task = "wait" THEN t + SecondsPerMinute
    ELSE c.wake + SecondsPerMinute * (((t - c.wake) \div SecondsPerMinute) + 1)

\* How many minutes lastMinute is behind "current minute plus one" at time t.
Lag(c, t) ==
    (TruncateMinute(t) + SecondsPerMinute - c.lastMinute) \div SecondsPerMinute

----------------------------------------------------------------------------
(* The wall clock *)


\* Time passes, by one of the given steps.
Tick(limit, steps) ==
    /\ ticks < limit
    /\ \E d \in steps : now' = now + d
    /\ ticks' = ticks + 1
    /\ resp' = NoResp
    /\ UNCHANGED <<caches, store, nextId, nPosts, advanced, rt, data, file, nAdmin, tokenCache>>

----------------------------------------------------------------------------
(* The advance task, a catch-up taken as one step *)

\* The timer (first time.After, then the ticker) wakes the task, which runs
\* advanceEx under the write lock.
Advance(a) ==
    /\ caches[a] # NoCache
    /\ caches[a].task # "exited"
    /\ now >= caches[a].wake
    /\ LET c == caches[a]
           d == advanceEx(c, now)
       IN  /\ caches' = [caches EXCEPT ![a] =
                            [d EXCEPT !.task = "tick", !.wake = NextWake(c, now)]]
           /\ advanced' = IF d.lastMinute # c.lastMinute
                          THEN advanced \cup {a} ELSE advanced
    /\ resp' = NoResp
    /\ UNCHANGED <<now, store, nextId, nPosts, ticks, rt, data, file, nAdmin, tokenCache>>

----------------------------------------------------------------------------
(* One cache on its own, called as its tests call it *)

\* The timestamps offered to Add, relative to lastMinute: one minute too old,
\* the oldest minute accepted, the oldest minute of the window, thirty
\* seconds into lastMinute, one minute too new; and relative to the clock:
\* the current time and two minutes ahead of it.
AddOffsets == {-1860, -1800, -1740, 30, 60}

AddTimes(c) ==
    {c.lastMinute + off : off \in AddOffsets} \cup {now, now + 2 * SecondsPerMinute}

\* The start minutes offered to GetEventsSince, relative to lastMinute.
SinceOffsets == {-30, -29, 0, 1}

\* cache.Add(&models.Event{EventID: ..., Timestamp: ts})
CacheAdd(a) ==
    /\ caches[a] # NoCache
    /\ nPosts < MaxAdds
    /\ \E ts \in AddTimes(caches[a]) :
          LET e == Event(nPosts + 1, ts, a)
          IN  /\ caches' = [caches EXCEPT ![a] = Add(@, e)]
              /\ resp' = [kind |-> "add", app |-> a, event |-> e]
    /\ nPosts' = nPosts + 1
    /\ UNCHANGED <<now, store, nextId, ticks, advanced, rt, data, file, nAdmin, tokenCache>>

\* cache.GetEventsSince(startMinutes)
CacheSince(a) ==
    /\ caches[a] # NoCache
    /\ \E off \in SinceOffsets :
          LET m == toMinutesSinceEpoch(caches[a].lastMinute) + off
          IN  resp' = [kind |-> "since", app |-> a, startMinutes |-> m,
                       events |-> GetEventsSince(caches[a], m)]
    /\ UNCHANGED <<now, caches, store, nextId, nPosts, ticks, advanced, rt, data, file, nAdmin, tokenCache>>

InitCache ==
    /\ now = StartTime
    /\ caches = [a \in Apps |-> IF a = "a1" THEN NewEventCache(StartTime) ELSE NoCache]
    /\ store = {}
    /\ nextId = 0
    /\ nPosts = 0
    /\ resp = NoResp
    /\ ticks = 0
    /\ advanced = {}
    /\ rt = Idle
    /\ data = NoApps
    /\ file = NoFile
    /\ nAdmin = 0
    /\ tokenCache = NoTokens

TickCache == Tick(MaxCacheTicks, {TickSeconds, PauseSeconds})

NextCache ==
    \/ TickCache
    \/ \E a \in Apps : Advance(a)
    \/ \E a \in Apps : CacheAdd(a)
    \/ \E a \in Apps : CacheSince(a)

SpecCache == InitCache /\ [][NextCache]_vars

----------------------------------------------------------------------------
(* The ring of one cache under a clock that also moves by less than a minute *)

\* The timestamps offered to Add, relative to lastMinute: the oldest minute
\* Add accepts and lastMinute itself, which both go to the current bucket.
RingOffsets == {-1800, 0}

\* cache.Add(&models.Event{EventID: ..., Timestamp: ts})
RingAdd(a) ==
    /\ caches[a] # NoCache
    /\ nPosts < MaxRingAdds
    /\ \E off \in RingOffsets :
          LET e == Event(nPosts + 1, caches[a].lastMinute + off, a)
          IN  /\ caches' = [caches EXCEPT ![a] = Add(@, e)]
              /\ resp' = [kind |-> "add", app |-> a, event |-> e]
    /\ nPosts' = nPosts + 1
    /\ UNCHANGED <<now, store, nextId, ticks, advanced, rt, data, file, nAdmin, tokenCache>>

TickRing == Tick(MaxRingTicks, {TickSeconds, PauseSeconds, JitterSeconds})

NextRing ==
    \/ TickRing
    \/ \E a \in Apps : Advance(a)
    \/ \E a \in Apps : RingAdd(a)

SpecRing == InitCache /\ [][NextRing]_vars

----------------------------------------------------------------------------
(* The minute conversions on their own *)

\* The instants converted, in milliseconds since the Unix epoch.
Instants == {500 * h : h \in -MaxHalfSeconds .. MaxHalfSeconds}

\* time.Time.Unix: the whole seconds since the epoch; the fraction of a
\* second of a Time is never negative, so this rounds down.
Unix(ms) == ms \div 1000

\* toMinutesSinceEpoch(t)
ToMinutes ==
    /\ resp.kind = "instant"
    /\ resp' = [kind |-> "minutes", ms |-> resp.ms,
                minutes |-> toMinutesSinceEpoch(Unix(resp.ms))]
    /\ UNCHANGED <<now, caches, store, nextId, nPosts, ticks, advanced, rt, data, file, nAdmin, tokenCache>>

\* fromMinutesSinceEpoch(minutes), its result read with Unix
FromMinutes ==
    /\ resp.kind = "minutes"
    /\ resp' = [kind |-> "time", ms |-> resp.ms, minutes |-> resp.minutes,
                unix |-> fromMinutesSinceEpoch(resp.minutes)]
    /\ UNCHANGED <<now, caches, store, nextId, nPosts, ticks, advanced, rt, data, file, nAdmin, tokenCache>>

InitMinutes ==
    /\ now = StartTime
    /\ caches = [a \in Apps |-> NoCache]
    /\ store = {}
    /\ nextId = 0
    /\ nPosts = 0
    /\ resp \in {[kind |-> "instant", ms |-> ms] : ms \in Instants}
    /\ ticks = 0
    /\ advanced = {}
    /\ rt = Idle
    /\ data = NoApps
    /\ file = NoFile
    /\ nAdmin = 0
    /\ tokenCache = NoTokens

NextMinutes ==
    \/ ToMinutes
    \/ FromMinutes

SpecMinutes == InitMinutes /\ [][NextMinutes]_vars

----------------------------------------------------------------------------
(* Manager: the per-application caches and the tiered retrieval *)

\* An AddEvent that makes a new cache for every event.
AddEventFresh(cs, e, t) ==
    [cs EXCEPT ![e.app] = Add(NewEventCache(t), e)]

\* Manager.AddEvent at wall-clock time t: make the application's cache on its
\* first event, then Add.
AddEvent(cs, e, t) ==
    LET made == IF cs[e.app] = NoCache
                THEN [cs EXCEPT ![e.app] = NewEventCache(t)] ELSE cs
    IN  [made EXCEPT ![e.app] = Add(@, e)]

\* A getEventsFromCache whose window starts W minutes before cacheLast.
getEventsFromCacheWide(cs, appID, startMinutes) ==
    IF cs[appID] = NoCache THEN <<FALSE, <<>>>>
    ELSE LET cache == cs[appID]
             cacheLast == toMinutesSinceEpoch(cache.lastMinute)
             cacheWindowStart == cacheLast - CacheWindowMinutes
         IN  IF startMinutes < cacheWindowStart THEN <<FALSE, <<>>>>
             ELSE IF startMinutes > cacheLast THEN <<FALSE, <<>>>>
             ELSE <<TRUE, GetEventsSince(cache, startMinutes)>>

\* Manager.getEventsFromCache: <<found, events>>.
getEventsFromCache(cs, appID, startMinutes) ==
    IF cs[appID] = NoCache THEN <<FALSE, <<>>>>
    ELSE LET cache == cs[appID]
             cacheLast == toMinutesSinceEpoch(cache.lastMinute)
             cacheWindowStart == cacheLast - (CacheWindowMinutes - 1)
         IN  IF startMinutes < cacheWindowStart THEN <<FALSE, <<>>>>
             ELSE IF startMinutes > cacheLast THEN <<FALSE, <<>>>>
             ELSE <<TRUE, GetEventsSince(cache, startMinutes)>>

\* An entry of the store is a file saveEvent wrote, [app, day, event], or
\* something else found in a directory data/<app>/<day>/:
\* [app, day, name, json, entries], which stands for that many entries whose
\* names end in ".json" or not and which do not decode as an event.
IsEventFile(f) == DOMAIN f = {"app", "day", "event"}

\* The entries os.ReadDir lists for data/<appID>/<day>/ (none when the
\* directory does not exist).
DirEntries(st, appID, day) == {f \in st : f.app = appID /\ f.day = day}

\* len(files)
RECURSIVE EntryCount(_)
EntryCount(entries) ==
    LET others == {f \in entries : ~IsEventFile(f)}
    IN  IF others = {} THEN Cardinality(entries)
        ELSE LET f == CHOOSE x \in others : TRUE
             IN  f.entries + EntryCount(entries \ {f})

\* Whether the loop of getEventsFromDay passes the entry to readEventFile.
HasJsonSuffix(f) == IsEventFile(f) \/ f.json

\* Whether readEventFile returns an event for the entry.
Decodes(f) == IsEventFile(f)

\* The files of one directory data/<appID>/<day>/, as os.ReadDir lists them:
\* sorted by file name (the event id).
RECURSIVE SortById(_)
SortById(files) ==
    IF files = {} THEN <<>>
    ELSE LET f == CHOOSE x \in files : \A y \in files : x.event.id <= y.event.id
         IN  <<f>> \o SortById(files \ {f})

\* A getEventsFromDay that gives up on the first file that does not decode.
getEventsFromDayStrict(st, appID, day, startMinutes) ==
    LET entries == DirEntries(st, appID, day)
        files == SortById({f \in entries : HasJsonSuffix(f) /\ Decodes(f)})
        kept  == SelectSeq(files,
                     LAMBDA f : toMinutesSinceEpoch(f.event.ts) >= startMinutes)
    IN  IF EntryCount(entries) > MaxDirEntries
           \/ \E f \in entries : HasJsonSuffix(f) /\ ~Decodes(f)
        THEN [err |-> TRUE, events |-> <<>>]
        ELSE [err |-> FALSE, events |-> [k \in 1 .. Len(kept) |-> kept[k].event]]

\* Manager.getEventsFromDay: the error and the events.
getEventsFromDay(st, appID, day, startMinutes) ==
    LET entries == DirEntries(st, appID, day)
        files == SortById({f \in entries : HasJsonSuffix(f) /\ Decodes(f)})
        kept  == SelectSeq(files,
                     LAMBDA f : toMinutesSinceEpoch(f.event.ts) >= startMinutes)
    IN  IF EntryCount(entries) > MaxDirEntries
        THEN [err |-> TRUE, events |-> <<>>]
        ELSE [err |-> FALSE, events |-> [k \in 1 .. Len(kept) |-> kept[k].event]]

\* The loop of getEventsFromDisk from date on, up to endDate.
RECURSIVE DiskFrom(_, _, _, _, _)
DiskFrom(st, appID, date, endDate, startMinutes) ==
    IF date > endDate THEN [err |-> FALSE, events |-> <<>>]
    ELSE LET dayEvents == getEventsFromDay(st, appID, date, startMinutes)
         IN  IF dayEvents.err THEN [err |-> TRUE, events |-> <<>>]
             ELSE LET later == DiskFrom(st, appID, date + SecondsPerDay, endDate,
                                        startMinutes)
                  IN  IF later.err THEN later
                      ELSE [err |-> FALSE,
                            events |-> dayEvents.events \o later.events]

\* Manager.getEventsFromDisk at wall-clock time t
getEventsFromDisk(st, appID, startMinutes, t) ==
    DiskFrom(st, appID, TruncateDay(fromMinutesSinceEpoch(startMinutes)),
             TruncateDay(t), startMinutes)

\* Manager.getEvents at wall-clock time t: the source read and the events.
getEvents(cs, st, appID, startMinutes, t) ==
    LET hit == getEventsFromCache(cs, appID, startMinutes)
    IN  IF hit[1]
        THEN [source |-> "cache", err |-> FALSE, events |-> hit[2]]
        ELSE LET scanned == getEventsFromDisk(st, appID, startMinutes, t)
             IN  [source |-> "disk", err |-> scanned.err, events |-> scanned.events]

----------------------------------------------------------------------------
(* EventTracker: the ingestion handler *)

\* An enrichEvent that corrects timestamps of the future only.
enrichTimestampFutureOnly(ts, serverNow) ==
    IF ts = ZeroTime THEN serverNow
    ELSE LET drift == ts - serverNow
         IN  IF drift > MaxTimestampDrift THEN serverNow
             ELSE ts

\* The timestamp part of enrichEvent.
enrichTimestamp(ts, serverNow) ==
    IF ts = ZeroTime THEN serverNow
    ELSE LET drift == ts - serverNow
         IN  IF drift > MaxTimestampDrift THEN serverNow
             ELSE IF drift < -MaxTimestampDrift THEN serverNow
             ELSE ts

\* An enrichEvent that keeps the application id the client named.
enrichEventKeepApp(body, appID, uuid, serverNow) ==
    Event(IF body.id = 0 THEN uuid ELSE body.id,
          enrichTimestamp(body.ts, serverNow),
          IF body.app \in Apps THEN body.app ELSE appID)

\* enrichEvent: the application id of the key, an event id if the client gave
\* none (0 stands for the empty string, uuid is the fresh UUIDv7), the
\* timestamp.
enrichEvent(body, appID, uuid, serverNow) ==
    Event(IF body.id = 0 THEN uuid ELSE body.id,
          enrichTimestamp(body.ts, serverNow),
          appID)

\* Event ids of the form "../../a2/<date>/<name>", the date that of the day
\* of the write. enrichEvent keeps the id the client gave, whatever it is.
ClimbingIds == {77}

\* The application directory filepath.Join("data", appID, date, id + ".json")
\* names: Join cleans the path, so the ".." elements of an id climb out of
\* data/<appID>/<date>/.
FileDir(appID, id) == IF id \in ClimbingIds THEN "a2" ELSE appID

\* saveEvent at wall-clock time t: data/<appID>/<date of t>/<event id>.json,
\* written over a file of that name.
saveEvent(st, e, appID, t) ==
    LET day == TruncateDay(t)
        dir == FileDir(appID, e.id)
    IN  {f \in st : ~(/\ IsEventFile(f)
                      /\ f.app = dir /\ f.day = day /\ f.event.id = e.id)}
            \cup {[app |-> dir, day |-> day, event |-> e]}

\* What a client may send as the event id (0: none), the timestamp (none, or
\* the server's time plus an offset in seconds) and the application id.
ClientIds == {0}

DriftOffsets == {-330, 300}

ClientTimes == {ZeroTime} \cup {now + off : off \in DriftOffsets}

ClientApps == {"a2", "zz"}

Bodies == [id : ClientIds, ts : ClientTimes, app : ClientApps]

NoBody == [id |-> 0, ts |-> ZeroTime, app |-> "zz"]

\* The requests POST /track is given: another method, no key or an unknown
\* one, a body that does not decode, and well-formed requests (every body
\* under the key of the first application, the plain one under the other's).
Requests ==
    {[method |-> "GET", apiKey |-> "k1", decodes |-> TRUE, body |-> NoBody]}
    \cup {[method |-> "POST", apiKey |-> k, decodes |-> TRUE, body |-> NoBody] :
             k \in {"", "bad"}}
    \cup {[method |-> "POST", apiKey |-> "k1", decodes |-> FALSE, body |-> NoBody]}
    \cup {[method |-> "POST", apiKey |-> "k1", decodes |-> TRUE, body |-> b] :
             b \in Bodies}
    \cup {[method |-> "POST", apiKey |-> "k2", decodes |-> TRUE, body |-> NoBody]}

\* PostHandler answers without having touched the caches or the store.
Reject(status) ==
    /\ resp' = [kind |-> "track", status |-> status]
    /\ UNCHANGED <<caches, store, nextId, nPosts, data, file, nAdmin, tokenCache>>

\* PostHandler from enrichEvent on, for the application of the key: the event
\* is offered to the cache, then written to the store, which may fail.
Ingest(app, body, limit) ==
    LET event == enrichEvent(body, app, nextId + 1, now)
    IN  /\ nPosts < limit
        /\ nPosts' = nPosts + 1
        /\ nextId' = IF body.id = 0 THEN nextId + 1 ELSE nextId
        /\ caches' = AddEvent(caches, event, now)
        /\ \E saved \in BOOLEAN :
              IF saved
              THEN /\ store' = saveEvent(store, event, app, now)
                   /\ resp' = [kind |-> "track", status |-> 200, event |-> event]
              ELSE /\ store' = store
                   /\ resp' = [kind |-> "track", status |-> 500, event |-> event]

\* A PostHandler that decodes the body before it looks at the key.
TrackDecodeFirst(r, limit) ==
    /\ IF r.method # "POST" THEN Reject(405)
       ELSE IF ~r.decodes THEN Reject(400)
       ELSE IF r.apiKey = "" THEN Reject(401)
       ELSE IF GetAppByAPIKey(data, r.apiKey) = {} THEN Reject(401)
       ELSE Ingest(CHOOSE a \in GetAppByAPIKey(data, r.apiKey) : TRUE, r.body,
                   limit)
    /\ UNCHANGED <<now, ticks, advanced, rt, data, file, nAdmin, tokenCache>>

\* PostHandler on request r.
Track(r, limit) ==
    /\ IF r.method # "POST" THEN Reject(405)
       ELSE IF r.apiKey = "" THEN Reject(401)
       ELSE IF GetAppByAPIKey(data, r.apiKey) = {} THEN Reject(401)
       ELSE IF ~r.decodes THEN Reject(400)
       ELSE Ingest(CHOOSE a \in GetAppByAPIKey(data, r.apiKey) : TRUE, r.body,
                   limit)
    /\ UNCHANGED <<now, ticks, advanced, rt, data, file, nAdmin, tokenCache>>

\* POST /analytics/api/v1/track
PostHandler == \E r \in Requests : Track(r, MaxPosts)

\* The start minutes a query may ask for, relative to the current minute.
QueryOffsets == {-29, -28, 1, 2}

\* The start-minutes-since-epoch parameter of a query: absent, not a number,
\* or the number m.
NoStart == [given |-> FALSE, parses |-> FALSE, value |-> 0]

BadStart == [given |-> TRUE, parses |-> FALSE, value |-> 0]

Start(m) == [given |-> TRUE, parses |-> TRUE, value |-> m]

\* A parseRequest whose default start is the first minute of the window of a
\* cache that is up to date.
parseRequestShort(appID, start, t) ==
    IF appID = "" THEN <<FALSE, "", 0>>
    ELSE IF ~start.given
         THEN <<TRUE, appID, toMinutesSinceEpoch(t) - (CacheWindowMinutes - 2)>>
    ELSE IF ~start.parses THEN <<FALSE, "", 0>>
    ELSE <<TRUE, appID, start.value>>

\* Manager.parseRequest at wall-clock time t, the path naming application
\* appID ("": extractAppID finds none): <<ok, appID, startMinutes>>.
parseRequest(appID, start, t) ==
    IF appID = "" THEN <<FALSE, "", 0>>
    ELSE IF ~start.given
         THEN <<TRUE, appID, toMinutesSinceEpoch(t) - CacheWindowMinutes>>
    ELSE IF ~start.parses THEN <<FALSE, "", 0>>
    ELSE <<TRUE, appID, start.value>>

\* GetEventsHandler on request r.
GetEvents(r) ==
    /\ IF r.method # "GET"
       THEN resp' = [kind |-> "events", status |-> 405]
       ELSE LET parsed == parseRequest(r.app, r.start, now)
            IN  IF ~parsed[1]
                THEN resp' = [kind |-> "events", status |-> 400]
                ELSE LET got == getEvents(caches, store, parsed[2], parsed[3], now)
                     IN  IF got.err
                         THEN resp' = [kind |-> "events", status |-> 500]
                         ELSE resp' = [kind |-> "events", status |-> 200,
                                       app |-> parsed[2],
                                       startMinutes |-> parsed[3],
                                       source |-> got.source,
                                       events |-> got.events]
    /\ UNCHANGED <<now, caches, store, nextId, nPosts, ticks, advanced, rt, data, file, nAdmin, tokenCache>>

\* GET /analytics/api/v1/apps/<appID>/events?start-minutes-since-epoch=<m>
GetEventsHandler ==
    \E appID \in Apps, off \in QueryOffsets :
        GetEvents([method |-> "GET", app |-> appID,
                   start |-> Start(toMinutesSinceEpoch(now) + off)])

Init ==
    /\ now = StartTime
    /\ caches = [a \in Apps |-> NoCache]
    /\ store = {}
    /\ nextId = 0
    /\ nPosts = 0
    /\ resp = NoResp
    /\ ticks = 0
    /\ advanced = {}
    /\ rt = Idle
    /\ data = load(save(Registered))
    /\ file = save(Registered)
    /\ nAdmin = 0
    /\ tokenCache = NoTokens

TickService == Tick(MaxTicks, {TickSeconds, PauseSeconds})

Next ==
    \/ TickService
    \/ \E a \in Apps : Advance(a)
    \/ PostHandler
    \/ GetEventsHandler

Spec == Init /\ [][Next]_vars

----------------------------------------------------------------------------
(* The service as the clients of one application see it, next to another *)

\* The event the other application, a2, was sent before: it is in a2's cache
\* and in a2's directory of the store.
Earlier == Event(9, StartTime, "a2")

\* POST /track with the key of a1, without an event id and with one that
\* climbs to a2's directory, and with the key of a2.
TierRequests ==
    {[method |-> "POST", apiKey |-> "k1", decodes |-> TRUE,
      body |-> [id |-> id, ts |-> ZeroTime, app |-> "zz"]] :
        id \in {0} \cup ClimbingIds}
    \cup {[method |-> "POST", apiKey |-> "k2", decodes |-> TRUE,
           body |-> [id |-> 0, ts |-> ZeroTime, app |-> "zz"]]}

\* GET .../apps/<a>/events without the parameter, and with the start of the
\* window of a cache that is up to date.
TierQuery ==
    \E a \in Apps,
       start \in {NoStart, Start(toMinutesSinceEpoch(now) - (CacheWindowMinutes - 2))} :
        GetEvents([method |-> "GET", app |-> a, start |-> start])

InitTiered ==
    /\ now = StartTime
    /\ caches = [a \in Apps |-> IF a = "a2"
                                THEN Add(NewEventCache(StartTime), Earlier)
                                ELSE NoCache]
    /\ store = saveEvent({}, Earlier, "a2", StartTime)
    /\ nextId = 0
    /\ nPosts = 0
    /\ resp = NoResp
    /\ ticks = 0
    /\ advanced = {}
    /\ rt = Idle
    /\ data = load(save(Registered))
    /\ file = save(Registered)
    /\ nAdmin = 0
    /\ tokenCache = NoTokens

NextTiered ==
    \/ TickService
    \/ \E a \in Apps : Advance(a)
    \/ \E r \in TierRequests : Track(r, MaxPosts)
    \/ TierQuery

SpecTiered == InitTiered /\ [][NextTiered]_vars

----------------------------------------------------------------------------
(* The ring of one cache taken once round *)

TickWrap == Tick(MaxWrapTicks, {TickSeconds, PauseSeconds})

\* A tiered query at either edge of the cache's window.
WrapQuery(a) ==
    /\ caches[a] # NoCache
    /\ \E off \in {-(CacheWindowMinutes - 1), 0} :
          GetEvents([method |-> "GET", app |-> a,
                     start |-> Start(cacheLastMinutes(caches[a]) + off)])

\* Two pauses of 28 minutes take current_index past the bucket it started at.
NextWrap ==
    \/ TickWrap
    \/ \E a \in Apps : Advance(a)
    \/ \E a \in Apps : RingAdd(a)
    \/ \E a \in Apps : WrapQuery(a)

SpecWrap == InitCache /\ [][NextWrap]_vars

----------------------------------------------------------------------------
(* One application's events, written and read back *)

\* POST /track with the key of a2: no timestamp, or one four minutes back.
ReadPost ==
    \E ts \in {ZeroTime, now - 4 * SecondsPerMinute} :
        Track([method |-> "POST", apiKey |-> "k2", decodes |-> TRUE,
               body |-> [id |-> 0, ts |-> ts, app |-> "zz"]], MaxPosts)

\* a2's cache holds Earlier from the start; a1 has no cache and is left alone.
NextRead ==
    \/ TickService
    \/ Advance("a2")
    \/ ReadPost
    \/ WrapQuery("a2")

SpecRead == InitTiered /\ [][NextRead]_vars

----------------------------------------------------------------------------
(* The ingestion handler on its own, over every combination of faults *)

\* Timestamps on both sides of the drift limit, in seconds from the server's
\* time.
TrackOffsets == {-301, -300, 300, 301}

TrackTimes == {ZeroTime} \cup {now + off : off \in TrackOffsets}

\* The client names no application, another registered one, or none that
\* exists; it never names "a1".
TrackClientApps == {"", "a2", "zz"}

\* The client gives no event id, or its own.
TrackClientIds == {0, 9}

TrackBodies == [id : TrackClientIds, ts : TrackTimes, app : TrackClientApps]

\* Every combination of method, key and body that decodes or does not, and
\* every body with each valid key.
TrackRequests ==
    [method : {"GET", "POST"}, apiKey : {"", "bad", "k1", "k2"},
     decodes : BOOLEAN, body : {NoBody}]
    \cup [method : {"POST"}, apiKey : {"k1", "k2"}, decodes : {TRUE},
          body : TrackBodies]

InitTrack ==
    /\ now \in {StartTime, StartTime + TickSeconds}
    /\ caches = [a \in Apps |-> NoCache]
    /\ store = {}
    /\ nextId = 0
    /\ nPosts = 0
    /\ resp = NoResp
    /\ ticks = 0
    /\ advanced = {}
    /\ rt = Idle
    /\ data = load(save(Registered))
    /\ file = save(Registered)
    /\ nAdmin = 0
    /\ tokenCache = NoTokens

TrackAny == \E r \in TrackRequests : Track(r, MaxTrackPosts)

NextTrack == TrackAny

SpecTrack == InitTrack /\ [][NextTrack]_vars

----------------------------------------------------------------------------
(* The store scanned directly, around UTC midnight *)

\* What else the directory of application a1 for the day of StartTime may
\* hold before the service starts: a file invalid.json that is not JSON, and
\* as many entries of other names as a day directory may have.
InvalidJson ==
    [app |-> "a1", day |-> TruncateDay(StartTime), name |-> "invalid.json",
     json |-> TRUE, entries |-> 1]

OtherEntries ==
    [app |-> "a1", day |-> TruncateDay(StartTime), name |-> "other",
     json |-> FALSE, entries |-> MaxDirEntries]

\* The timestamps a client sends: none, or the server's time less or plus the
\* drift allowed.
DiskOffsets == {-MaxTimestampDrift, MaxTimestampDrift}

DiskBodies ==
    [id : {0}, ts : {ZeroTime} \cup {now + off : off \in DiskOffsets}, app : {"zz"}]

DiskRequests ==
    {[method |-> "POST", apiKey |-> k, decodes |-> TRUE, body |-> b] :
        k \in {"k1", "k2"}, b \in DiskBodies}

\* POST /analytics/api/v1/track
DiskPost == \E r \in DiskRequests : Track(r, MaxDiskPosts)

TickDisk == Tick(MaxDiskTicks, {DiskTickSeconds})

\* The start minutes a scan is asked for, relative to the current minute.
ScanOffsets == {-6, 0, 1}

\* manager.getEventsFromDisk(appID, startMinutes)
DiskScan(a) ==
    /\ \E off \in ScanOffsets :
          LET m == toMinutesSinceEpoch(now) + off
              scanned == getEventsFromDisk(store, a, m, now)
          IN  resp' = [kind |-> "scan", app |-> a, startMinutes |-> m,
                       err |-> scanned.err, events |-> scanned.events]
    /\ UNCHANGED <<now, caches, store, nextId, nPosts, ticks, advanced, rt, data, file, nAdmin, tokenCache>>

InitDisk ==
    /\ now = StartTime
    /\ caches = [a \in Apps |-> NoCache]
    /\ store \in SUBSET {InvalidJson, OtherEntries}
    /\ nextId = 0
    /\ nPosts = 0
    /\ resp = NoResp
    /\ ticks = 0
    /\ advanced = {}
    /\ rt = Idle
    /\ data = load(save(Registered))
    /\ file = save(Registered)
    /\ nAdmin = 0
    /\ tokenCache = NoTokens

NextDisk ==
    \/ TickDisk
    \/ \E a \in Apps : Advance(a)
    \/ DiskPost
    \/ \E a \in Apps : DiskScan(a)

SpecDisk == InitDisk /\ [][NextDisk]_vars

----------------------------------------------------------------------------
(* The admin-auth middleware in front of a handler that answers 200 *)

\* What the claims of a token say, and whether a Firebase key signed it.
TokenSigned(t) == t \in {"t1", "t3"}

TokenSub(t) == IF t = "t1" THEN "u1" ELSE "u3"

HasExp(t) == t = "t1"

TokenExp(t) == StartTime + TokenLifeSeconds

\* The Authorization headers of the requests: none, one that does not begin
\* with "Bearer ", "Bearer " and nothing more, and "Bearer " with a token.
AuthHeaders ==
    {[scheme |-> "none", token |-> ""], [scheme |-> "basic", token |-> "t1"],
     [scheme |-> "bearer", token |-> ""]}
    \cup {[scheme |-> "bearer", token |-> t] : t \in Tokens}

\* verifyFirebaseToken at time t: jwt.Parse with the keys fetched from
\* Firebase, which may fail; a token with an exp claim is valid before exp.
verifyFirebaseToken(tok, fetched, t) ==
    /\ TokenSigned(tok)
    /\ fetched
    /\ HasExp(tok) => t < TokenExp(tok)

\* A Get that still finds an entry after its expiration.
CacheGetStale(tc, tok, t) == tc[tok]

\* tokenCache.Get(tokenStr) at time t: the entry, unless it has expired.
CacheGet(tc, tok, t) ==
    IF tc[tok] = NoEntry THEN NoEntry
    ELSE IF t > tc[tok].expiration THEN NoEntry
    ELSE tc[tok]

\* What the middleware answers, or the next handler behind it.
AuthAnswer(h, status, user, verified) ==
    resp' = [kind |-> "auth", header |-> h, status |-> status, user |-> user,
             verified |-> verified]

\* FirebaseAuthMiddleware(next) on a request with Authorization header h.
Auth(h) ==
    /\ nAdmin < MaxAuthRequests
    /\ nAdmin' = nAdmin + 1
    /\ IF h.scheme # "bearer" \/ h.token = ""
       THEN AuthAnswer(h, 401, "", FALSE) /\ UNCHANGED <<now, tokenCache>>
       ELSE IF CacheGet(tokenCache, h.token, now) # NoEntry
       THEN /\ AuthAnswer(h, 200, CacheGet(tokenCache, h.token, now).userID, FALSE)
            /\ UNCHANGED <<now, tokenCache>>
       ELSE \E fetched \in BOOLEAN, stall \in {0, StallSeconds} :
               IF ~verifyFirebaseToken(h.token, fetched, now)
               THEN AuthAnswer(h, 403, "", TRUE) /\ UNCHANGED <<now, tokenCache>>
               ELSE /\ now' = now + stall
                    /\ LET ttl == TokenExp(h.token) - now'
                       IN  tokenCache' =
                             IF HasExp(h.token) /\ ttl > 0
                             THEN [tokenCache EXCEPT ![h.token] =
                                      [userID |-> TokenSub(h.token),
                                       expiration |-> now' + ttl]]
                             ELSE tokenCache
                    /\ AuthAnswer(h, 200, TokenSub(h.token), TRUE)
    /\ UNCHANGED <<caches, store, nextId, nPosts, ticks, advanced, rt, data, file>>

AuthRequest == \E h \in AuthHeaders : Auth(h)

TickAuth == Tick(MaxAuthTicks, {TickSeconds})

NextAuth ==
    \/ TickAuth
    \/ AuthRequest

SpecAuth == InitCache /\ [][NextAuth]_vars

----------------------------------------------------------------------------
(* The registry handlers, the CORS wrapper and the routes *)

\* GenerateUUIDv7: the n-th identifier handed out as an API key.
GenerateUUIDv7(n) == <<"k1", "k2", "k3", "k4">>[n]

\* A CreateApp that does not look for an existing entry.
CreateAppOverwrite(d, name, origins, apiKey, t, saved) ==
    LET id     == hashID(name)
        stored == [d EXCEPT ![id] = NewApp(id, name, apiKey, t, origins)]
    IN  IF ~saved
        THEN [err |-> "save", data |-> [stored EXCEPT ![id] = NoApp]]
        ELSE [err |-> "", data |-> stored]

\* Manager.CreateApp at wall-clock time t, apiKey being the fresh key and saved
\* telling whether m.save() succeeds: the error ("": none) and m.data.Apps
\* afterwards.
CreateApp(d, name, origins, apiKey, t, saved) ==
    LET id     == hashID(name)
        stored == [d EXCEPT ![id] = NewApp(id, name, apiKey, t, origins)]
    IN  IF d[id] # NoApp THEN [err |-> "exists", data |-> d]
        ELSE IF ~saved
        THEN [err |-> "save", data |-> [stored EXCEPT ![id] = NoApp]]
        ELSE [err |-> "", data |-> stored]

\* A registry handler answers without having touched the registry.
AdminReject(kind, status) ==
    /\ resp' = [kind |-> kind, status |-> status]
    /\ UNCHANGED <<caches, data, file>>

\* The registry handlers count their requests and leave the rest alone.
AdminFrame ==
    /\ nAdmin < MaxAdmin
    /\ nAdmin' = nAdmin + 1
    /\ UNCHANGED <<now, store, nextId, nPosts, ticks, advanced, rt, tokenCache>>

\* CreateAppHandler on request r. A failing m.save() is one whose write does
\* not begin: the document stays as it was.
CreateAppHandler(r) ==
    /\ AdminFrame
    /\ IF r.method # "POST" THEN AdminReject("create", 405)
       ELSE IF ~r.decodes THEN AdminReject("create", 400)
       ELSE IF decodeString(r.name) = <<>> THEN AdminReject("create", 400)
       ELSE \E saved \in BOOLEAN :
               LET name == decodeString(r.name)
                   res  == CreateApp(data, name, r.origins,
                                     GenerateUUIDv7(nAdmin + 1), now, saved)
               IN  /\ data' = res.data
                   /\ file' = IF res.err = "" THEN save(res.data) ELSE file
                   /\ resp' = IF res.err = ""
                              THEN [kind |-> "create", status |-> 201,
                                    err |-> "", app |-> res.data[hashID(name)]]
                              ELSE [kind |-> "create", status |-> 500,
                                    err |-> res.err]
                   /\ caches' = caches

\* UpdateAppHandler on request r.
UpdateAppHandler(r) ==
    /\ AdminFrame
    /\ IF r.method # "PUT" THEN AdminReject("update", 405)
       ELSE IF r.app = "" THEN AdminReject("update", 400)
       ELSE IF ~r.decodes THEN AdminReject("update", 400)
       ELSE IF decodeString(r.name) = <<>> THEN AdminReject("update", 400)
       ELSE IF data[r.app] = NoApp THEN AdminReject("update", 404)
       ELSE \E saved \in BOOLEAN :
               LET updated == [data EXCEPT ![r.app].name = decodeString(r.name),
                                           ![r.app].origins = r.origins]
               IN  /\ data' = updated
                   /\ file' = IF saved THEN save(updated) ELSE file
                   /\ resp' = IF saved
                              THEN [kind |-> "update", status |-> 200,
                                    app |-> updated[r.app]]
                              ELSE [kind |-> "update", status |-> 500]
                   /\ caches' = caches

\* A DeleteAppHandler that leaves the application's cache in place.
DeleteKeepCache(r) ==
    /\ AdminFrame
    /\ IF r.method # "DELETE" THEN AdminReject("delete", 405)
       ELSE IF r.app = "" THEN AdminReject("delete", 400)
       ELSE IF data[r.app] = NoApp THEN AdminReject("delete", 404)
       ELSE \E saved \in BOOLEAN :
               LET deleted == [data EXCEPT ![r.app] = NoApp]
               IN  /\ data' = deleted
                   /\ caches' = caches
                   /\ file' = IF saved THEN save(deleted) ELSE file
                   /\ resp' = [kind |-> "delete",
                               status |-> IF saved THEN 204 ELSE 500]

\* DeleteAppHandler on request r.
DeleteAppHandler(r) ==
    /\ AdminFrame
    /\ IF r.method # "DELETE" THEN AdminReject("delete", 405)
       ELSE IF r.app = "" THEN AdminReject("delete", 400)
       ELSE IF data[r.app] = NoApp THEN AdminReject("delete", 404)
       ELSE \E saved \in BOOLEAN :
               LET deleted == [data EXCEPT ![r.app] = NoApp]
               IN  /\ data' = deleted
                   /\ caches' = [caches EXCEPT ![r.app] = NoCache]
                   /\ file' = IF saved THEN save(deleted) ELSE file
                   /\ resp' = [kind |-> "delete",
                               status |-> IF saved THEN 204 ELSE 500]

\* CrudHandler on request r: the handler of the method; a GET is a query if
\* its path ends in /events.
CrudHandler(r) ==
    IF r.method = "POST" THEN CreateAppHandler(r)
    ELSE IF r.method = "PUT" THEN UpdateAppHandler(r)
    ELSE IF r.method = "DELETE" THEN DeleteAppHandler(r)
    ELSE IF r.method = "GET" /\ r.events THEN GetEvents(r)
    ELSE /\ resp' = [kind |-> "crud",
                     status |-> IF r.method = "GET" THEN 400 ELSE 405]
         /\ UNCHANGED <<now, caches, store, nextId, nPosts, ticks, advanced, rt, data, file, nAdmin, tokenCache>>

\* A wrapper that lets every origin through once the key is valid.
corsAnyOrigin(d, r) ==
    IF r.origin = "" THEN 0
    ELSE IF r.method = "OPTIONS" THEN 200
    ELSE IF r.apiKey = "" THEN 401
    ELSE IF GetAppByAPIKey(d, r.apiKey) = {} THEN 401
    ELSE 0

\* corsMiddlewareWrapper on request r: the status it answers with, or 0 when
\* it calls next.ServeHTTP.
corsMiddlewareWrapper(d, r) ==
    IF r.origin = "" THEN 0
    ELSE IF r.method = "OPTIONS" THEN 200
    ELSE IF r.apiKey = "" THEN 401
    ELSE IF GetAppByAPIKey(d, r.apiKey) = {} THEN 401
    ELSE LET app == d[CHOOSE a \in GetAppByAPIKey(d, r.apiKey) : TRUE]
             allowed == \E k \in 1 .. Len(app.origins) : app.origins[k] = r.origin
         IN  IF ~allowed THEN 403 ELSE 0

\* /analytics/api/v1/track: corsMiddleware(tracker.PostHandler()) on request r.
TrackRoute(r) ==
    LET status == corsMiddlewareWrapper(data, r)
    IN  IF status = 0 THEN Track(r, MaxRegPosts)
        ELSE /\ resp' = [kind |-> "cors", status |-> status]
             /\ UNCHANGED <<now, caches, store, nextId, nPosts, ticks, advanced, rt, data, file, nAdmin, tokenCache>>

\* Names as they arrive in a request body: empty, two that hash to the same
\* id (the second with a byte that is not UTF-8), and one with a character
\* that json.Marshal escapes.
RawNames == {<<>>, <<"x">>, <<"x", "?">>, <<"y", "<">>}

OriginLists == {<<>>, <<"o1">>}

\* The fields a request to /analytics/api/v1/apps/... may carry.
AdminRequest(method, app, events, decodes, name, origins, start) ==
    [method |-> method, app |-> app, events |-> events, decodes |-> decodes,
     name |-> name, origins |-> origins, start |-> start]

\* The requests to /analytics/api/v1/apps/...: they carry no Origin header,
\* so the CORS wrapper passes them on, and they are authenticated.
AdminRequests ==
    {AdminRequest("POST", "", FALSE, TRUE, n, o, NoStart) :
        n \in RawNames, o \in OriginLists}
    \cup {AdminRequest("POST", "", FALSE, FALSE, <<>>, <<>>, NoStart)}
    \cup {AdminRequest("PUT", a, FALSE, TRUE, n, <<"o2">>, NoStart) :
             a \in Apps \cup {""}, n \in {<<>>, <<"z">>}}
    \cup {AdminRequest("PUT", "a1", FALSE, FALSE, <<>>, <<>>, NoStart)}
    \cup {AdminRequest("DELETE", a, FALSE, TRUE, <<>>, <<>>, NoStart) :
             a \in Apps \cup {""}}
    \cup {AdminRequest("GET", a, TRUE, TRUE, <<>>, <<>>, st) :
             a \in {"", "a1"},
             st \in {NoStart, BadStart, Start(toMinutesSinceEpoch(now))}}
    \cup {AdminRequest(m, "a1", FALSE, TRUE, <<>>, <<>>, NoStart) :
             m \in {"GET", "PATCH"}}

\* The requests to /analytics/api/v1/track: from a page (with an Origin) or
\* not, a preflight or a POST, with no key, an unknown one or the key of the
\* first application created.
RouteTrackRequests ==
    [method : {"POST", "OPTIONS"}, origin : {"", "o1", "o2"},
     apiKey : {"", "bad", "k1"}, decodes : {TRUE}, body : {NoBody}]

\* NewManager where no document exists: an empty registry, written out.
InitReg ==
    /\ now = StartTime
    /\ caches = [a \in Apps |-> NoCache]
    /\ store = {}
    /\ nextId = 0
    /\ nPosts = 0
    /\ resp = NoResp
    /\ ticks = 0
    /\ advanced = {}
    /\ rt = Idle
    /\ data = NoApps
    /\ file = save(NoApps)
    /\ nAdmin = 0
    /\ tokenCache = NoTokens

AdminRoute == \E r \in AdminRequests : CrudHandler(r)

TrackRoutes == \E r \in RouteTrackRequests : TrackRoute(r)

NextReg ==
    \/ AdminRoute
    \/ TrackRoutes

SpecReg == InitReg /\ [][NextReg]_vars

----------------------------------------------------------------------------
(* One cache, goroutine by goroutine: sync.RWMutex, sync.Once, the select *)

\* The application whose cache the goroutines work on.
TheApp == "a1"

TheCache == caches[TheApp]

OnlyRt == UNCHANGED <<now, caches, store, nextId, nPosts, resp, ticks, advanced, data, file, nAdmin, tokenCache>>

RtAndResp == UNCHANGED <<now, caches, store, nextId, nPosts, ticks, advanced, data, file, nAdmin, tokenCache>>

RtAndCache == UNCHANGED <<now, store, nextId, nPosts, resp, ticks, data, file, nAdmin, tokenCache>>

\* sync.RWMutex.RLock returns: no writer holds or has asked for the lock.
CanRLock(mu) == mu.w = "none"

\* sync.RWMutex.Lock, first half: the writer is announced; from now on RLock
\* blocks.
CanAnnounce(mu) == mu.w = "none"

\* A Lock that does not wait for the readers.
CanEnterAnyway(mu, who) == mu.w = who /\ ~mu.active

\* sync.RWMutex.Lock, second half: the readers have left.
CanEnter(mu, who) == mu.w = who /\ ~mu.active /\ mu.readers = 0

FreeMu == [w |-> "none", active |-> FALSE, readers |-> 0]

\* advance: the timer case of the select (time.After, then ticker.C), and the
\* first two lines of advanceEx.
AdvWake ==
    /\ rt.advPc = "select"
    /\ now >= TheCache.wake
    /\ rt' = [rt EXCEPT !.advPc = "lock",
                        !.target = TruncateMinute(now) + SecondsPerMinute]
    /\ caches' = [caches EXCEPT ![TheApp].wake =
                     IF TheCache.task = "wait" THEN @ ELSE NextWake(TheCache, now)]
    /\ advanced' = advanced
    /\ RtAndCache

\* advance: the done case of the select.
AdvExit ==
    /\ rt.advPc = "select"
    /\ TheCache.done
    /\ rt' = [rt EXCEPT !.advPc = "exited"]
    /\ caches' = [caches EXCEPT ![TheApp].task = "exited"]
    /\ advanced' = advanced
    /\ RtAndCache

\* advanceEx: c.mu.Lock()
AdvLock ==
    \/ /\ rt.advPc = "lock"
       /\ CanAnnounce(rt.mu)
       /\ rt' = [rt EXCEPT !.advPc = "enter", !.mu.w = "adv"]
       /\ OnlyRt
    \/ /\ rt.advPc = "enter"
       /\ CanEnter(rt.mu, "adv")
       /\ rt' = [rt EXCEPT !.advPc = "test", !.mu.active = TRUE]
       /\ OnlyRt

\* advanceEx: the loop condition
AdvTest ==
    /\ rt.advPc = "test"
    /\ rt' = [rt EXCEPT !.advPc =
                 IF TheCache.lastMinute < rt.target THEN "idx" ELSE "unlock"]
    /\ OnlyRt

\* advanceEx: the three statements of the loop body, one at a time
AdvBody ==
    /\ \/ /\ rt.advPc = "idx"
          /\ caches' = [caches EXCEPT ![TheApp].currentIndex =
                           (@ + 1) % CacheWindowMinutes]
          /\ rt' = [rt EXCEPT !.advPc = "clear"]
          /\ advanced' = advanced
       \/ /\ rt.advPc = "clear"
          /\ caches' = [caches EXCEPT ![TheApp].buckets[TheCache.currentIndex] = <<>>]
          /\ rt' = [rt EXCEPT !.advPc = "last"]
          /\ advanced' = advanced
       \/ /\ rt.advPc = "last"
          /\ caches' = [caches EXCEPT ![TheApp].lastMinute = @ + SecondsPerMinute]
          /\ rt' = [rt EXCEPT !.advPc = "test"]
          /\ advanced' = advanced \cup {TheApp}
    /\ RtAndCache

\* advanceEx: c.mu.Unlock(); after the first catch-up, time.NewTicker
AdvUnlock ==
    /\ rt.advPc = "unlock"
    /\ rt' = [rt EXCEPT !.advPc = "select", !.mu = FreeMu]
    /\ caches' = [caches EXCEPT
                     ![TheApp].task = "tick",
                     ![TheApp].wake = IF TheCache.task = "wait"
                                      THEN now + SecondsPerMinute ELSE @]
    /\ advanced' = advanced
    /\ RtAndCache

\* The timestamps an Add call is given: the current time, and 28 minutes
\* before it, which is the oldest minute of the window (the bucket the next
\* advance step clears) when the cache is up to date.
StepAddTimes == {now - PauseSeconds, now}

\* A goroutine calls cache.Add(event) ...
AddCall(limit, times) ==
    /\ rt.wPc = "idle"
    /\ rt.calls < limit
    /\ \E ts \in times :
          rt' = [rt EXCEPT !.wPc = "lock", !.calls = @ + 1,
                           !.wEvent = Event(rt.calls + 1, ts, TheApp)]
    /\ OnlyRt

\* ... Add: c.mu.Lock() ...
AddLock ==
    \/ /\ rt.wPc = "lock"
       /\ CanAnnounce(rt.mu)
       /\ rt' = [rt EXCEPT !.wPc = "enter", !.mu.w = "add"]
       /\ OnlyRt
    \/ /\ rt.wPc = "enter"
       /\ CanEnter(rt.mu, "add")
       /\ rt' = [rt EXCEPT !.wPc = "held", !.mu.active = TRUE]
       /\ OnlyRt

\* ... Add: the body, and the deferred c.mu.Unlock()
AddBody ==
    /\ rt.wPc = "held"
    /\ caches' = [caches EXCEPT ![TheApp] = Add(@, rt.wEvent)]
    /\ rt' = [rt EXCEPT !.wPc = "idle", !.mu = FreeMu]
    /\ resp' = [kind |-> "add", app |-> TheApp, event |-> rt.wEvent]
    /\ UNCHANGED <<now, store, nextId, nPosts, ticks, advanced, data, file, nAdmin, tokenCache>>

\* The start minutes a query asks for, relative to lastMinute as it is when
\* the call starts.
StepSinceOffsets == {-29, 0}

\* A goroutine calls Manager.getEventsFromCache (nested) or, as the tests do,
\* cache.GetEventsSince.
QueryCall(nested, limit) ==
    /\ rt.qPc = "idle"
    /\ rt.calls < limit
    /\ \E off \in StepSinceOffsets :
          rt' = [rt EXCEPT !.qPc = IF nested THEN "rlock1" ELSE "rlock2",
                           !.qNested = nested,
                           !.calls = @ + 1,
                           !.qStart = cacheLastMinutes(TheCache) + off]
    /\ OnlyRt

\* getEventsFromCache: cache.mu.RLock(), and the window check on lastMinute;
\* a miss unlocks (deferred) and returns.
QueryOuter ==
    \/ /\ rt.qPc = "rlock1"
       /\ CanRLock(rt.mu)
       /\ rt' = [rt EXCEPT !.qPc = "check", !.mu.readers = @ + 1]
       /\ OnlyRt
    \/ /\ rt.qPc = "check"
       /\ LET cacheLast == toMinutesSinceEpoch(TheCache.lastMinute)
              miss == \/ rt.qStart < cacheLast - (CacheWindowMinutes - 1)
                      \/ rt.qStart > cacheLast
          IN  IF miss
              THEN /\ rt' = [rt EXCEPT !.qPc = "idle", !.mu.readers = @ - 1]
                   /\ resp' = [kind |-> "miss", app |-> TheApp,
                               startMinutes |-> rt.qStart]
              ELSE /\ rt' = [rt EXCEPT !.qPc = "rlock2"]
                   /\ resp' = resp
       /\ RtAndResp

\* GetEventsSince: c.mu.RLock()
QueryRLock ==
    /\ rt.qPc = "rlock2"
    /\ CanRLock(rt.mu)
    /\ rt' = [rt EXCEPT !.qPc = "readLast", !.mu.readers = @ + 1]
    /\ OnlyRt

\* GetEventsSince: the reads of lastMinute, of currentIndex and of the buckets,
\* one at a time
QueryRead ==
    /\ \/ /\ rt.qPc = "readLast"
          /\ rt' = [rt EXCEPT !.qPc = "readIdx",
                              !.qSnap.lastMinute = TheCache.lastMinute]
       \/ /\ rt.qPc = "readIdx"
          /\ rt' = [rt EXCEPT !.qPc = "readBuckets",
                              !.qSnap.currentIndex = TheCache.currentIndex]
       \/ /\ rt.qPc = "readBuckets"
          /\ rt' = [rt EXCEPT !.qPc = "runlock",
                              !.qSnap.buckets = TheCache.buckets]
    /\ OnlyRt

\* GetEventsSince returns (deferred c.mu.RUnlock()), and so does
\* getEventsFromCache (deferred cache.mu.RUnlock()).
QueryReturn ==
    /\ rt.qPc = "runlock"
    /\ rt' = [rt EXCEPT !.qPc = "idle",
                        !.mu.readers = IF rt.qNested THEN @ - 2 ELSE @ - 1]
    /\ resp' = [kind |-> "since", app |-> TheApp, startMinutes |-> rt.qStart,
                events |-> GetEventsSince(rt.qSnap, rt.qStart)]
    /\ RtAndResp

\* EventCache.Stop: c.stopOnce.Do(func() { close(c.done) }). sync.Once.Do
\* loads its done flag, and if it is unset takes its mutex, looks again, runs
\* the function and sets the flag.
StopCall(s) ==
    /\ rt.sPc[s] = "idle"
    /\ rt.stops < MaxStops
    /\ rt' = [rt EXCEPT !.sPc[s] = "load", !.stops = @ + 1]
    /\ OnlyRt

\* A Stop that looks at the flag once only, outside the mutex.
StopRacy(s) ==
    /\ \/ /\ rt.sPc[s] = "load"
          /\ IF rt.onceDone
             THEN rt' = [rt EXCEPT !.sPc[s] = "idle", !.returned = @ \cup {s}]
             ELSE rt' = [rt EXCEPT !.sPc[s] = "mutex"]
          /\ caches' = caches
       \/ /\ rt.sPc[s] = "mutex"
          /\ rt.onceM = "none"
          /\ rt' = [rt EXCEPT !.sPc[s] = "slow", !.onceM = s]
          /\ caches' = caches
       \/ /\ rt.sPc[s] = "slow"
          /\ rt' = [rt EXCEPT !.sPc[s] = "idle", !.onceM = "none",
                              !.onceDone = TRUE,
                              !.returned = @ \cup {s},
                              !.closes = @ + 1]
          /\ caches' = [caches EXCEPT ![TheApp].done = TRUE]
    /\ UNCHANGED <<now, store, nextId, nPosts, resp, ticks, advanced, data, file, nAdmin, tokenCache>>

StopOnce(s) ==
    /\ \/ /\ rt.sPc[s] = "load"
          /\ IF rt.onceDone
             THEN rt' = [rt EXCEPT !.sPc[s] = "idle", !.returned = @ \cup {s}]
             ELSE rt' = [rt EXCEPT !.sPc[s] = "mutex"]
          /\ caches' = caches
       \/ /\ rt.sPc[s] = "mutex"
          /\ rt.onceM = "none"
          /\ rt' = [rt EXCEPT !.sPc[s] = "slow", !.onceM = s]
          /\ caches' = caches
       \/ /\ rt.sPc[s] = "slow"
          /\ rt' = [rt EXCEPT !.sPc[s] = "idle", !.onceM = "none",
                              !.onceDone = TRUE,
                              !.returned = @ \cup {s},
                              !.closes = IF rt.onceDone THEN @ ELSE @ + 1]
          /\ caches' = IF rt.onceDone THEN caches
                       ELSE [caches EXCEPT ![TheApp].done = TRUE]
    /\ UNCHANGED <<now, store, nextId, nPosts, resp, ticks, advanced, data, file, nAdmin, tokenCache>>

TickStep == Tick(MaxStepTicks, {TickSeconds})

\* The advance task's steps.
AdvanceTask == AdvWake \/ AdvLock \/ AdvTest \/ AdvBody \/ AdvUnlock

\* The steps of the calls in progress.
CallSteps ==
    \/ AddLock
    \/ AddBody
    \/ QueryOuter
    \/ QueryRLock
    \/ QueryRead
    \/ QueryReturn

\* Queries through the manager, Add calls and the advance task on one cache.
NextStep ==
    \/ TickStep
    \/ AdvanceTask
    \/ AddCall(MaxCalls, StepAddTimes)
    \/ QueryCall(TRUE, MaxCalls)
    \/ CallSteps

SpecStep == InitCache /\ [][NextStep]_vars

\* The steps of the Add calls in progress.
AddSteps == AddLock \/ AddBody

Stopping == \E s \in Stoppers : StopOnce(s)

\* One cache used through its own methods, as its tests use it: Stop from
\* two goroutines, the advance task, and Add calls that compete with it for
\* the write lock.
NextStop ==
    \/ TickStep
    \/ AdvanceTask
    \/ AdvExit
    \/ AddCall(MaxCallsStopping, {now})
    \/ AddSteps
    \/ \E s \in Stoppers : StopCall(s)
    \/ Stopping

\* The Go scheduler runs every goroutine that can take a step; a select with
\* several ready cases picks among them at random, so a closed done channel is
\* picked sooner or later.
SpecStop ==
    /\ InitCache
    /\ [][NextStop]_vars
    /\ WF_vars(AdvanceTask)
    /\ SF_vars(AdvExit)
    /\ WF_vars(AddSteps)
    /\ WF_vars(Stopping)

----------------------------------------------------------------------------
(* POST /track, goroutine by goroutine: Manager.cachesMu *)

\* A Lock that does not wait for the goroutine that holds the mutex.
CanLockMapAnyway(mu) == TRUE

\* sync.RWMutex.Lock on cachesMu returns: no goroutine holds it.
CanLockMap(mu) == mu = "none"

\* PostHandler up to enrichEvent: the key is looked up, the body decoded (an
\* event with or without an id of the client's, and no timestamp) and the
\* event enriched.
PostBegin(g) ==
    /\ rt.flight[g].pc = "idle"
    /\ nPosts < MaxFlightPosts
    /\ nPosts' = nPosts + 1
    /\ \E key \in {"k1", "k2"}, id \in {0, 9} :
          LET found == GetAppByAPIKey(data, key)
              app   == CHOOSE a \in found : TRUE
              body  == [id |-> id, ts |-> ZeroTime, app |-> "zz"]
          IN  IF found = {}
              THEN /\ resp' = [kind |-> "track", status |-> 401]
                   /\ UNCHANGED <<rt, nextId>>
              ELSE /\ rt' = [rt EXCEPT !.flight[g] =
                                 [pc |-> "lock", app |-> app,
                                  event |-> enrichEvent(body, app, nextId + 1, now)]]
                   /\ nextId' = IF id = 0 THEN nextId + 1 ELSE nextId
                   /\ resp' = resp
    /\ UNCHANGED <<now, caches, store, ticks, advanced, data, file, nAdmin, tokenCache>>

\* AddEvent: m.cachesMu.Lock()
AddEventLock(g) ==
    /\ rt.flight[g].pc = "lock"
    /\ CanLockMap(rt.mapMu)
    /\ rt' = [rt EXCEPT !.mapMu = g, !.flight[g].pc = "lookup"]
    /\ OnlyRt

\* AddEvent: _, exists := m.caches[event.AppID]
AddEventLookup(g) ==
    /\ rt.flight[g].pc = "lookup"
    /\ rt' = [rt EXCEPT !.flight[g].pc =
                 IF caches[rt.flight[g].app] = NoCache THEN "make" ELSE "add"]
    /\ OnlyRt

\* AddEvent: m.caches[event.AppID] = NewEventCache()
AddEventMake(g) ==
    /\ rt.flight[g].pc = "make"
    /\ caches' = [caches EXCEPT ![rt.flight[g].app] = NewEventCache(now)]
    /\ rt' = [rt EXCEPT !.flight[g].pc = "add",
                        !.created[rt.flight[g].app] = @ + 1]
    /\ UNCHANGED <<now, store, nextId, nPosts, resp, ticks, advanced, data, file, nAdmin, tokenCache>>

\* AddEvent: m.caches[event.AppID].Add(event), and the deferred
\* m.cachesMu.Unlock()
AddEventAdd(g) ==
    /\ rt.flight[g].pc = "add"
    /\ LET f == rt.flight[g]
       IN  /\ caches' = [caches EXCEPT ![f.app] = Add(@, f.event)]
           /\ rt' = [rt EXCEPT !.flight[g].pc = "save",
                               !.mapMu = "none",
                               !.offered = @ \cup {[event |-> f.event,
                                                    app |-> f.app,
                                                    cache |-> rt.created[f.app]]}]
    /\ UNCHANGED <<now, store, nextId, nPosts, resp, ticks, advanced, data, file, nAdmin, tokenCache>>

\* PostHandler from saveEvent on.
PostSave(g) ==
    /\ rt.flight[g].pc = "save"
    /\ LET f == rt.flight[g]
       IN  \E saved \in BOOLEAN :
              /\ store' = IF saved THEN saveEvent(store, f.event, f.app, now)
                          ELSE store
              /\ resp' = [kind |-> "track",
                          status |-> IF saved THEN 200 ELSE 500,
                          event |-> f.event]
    /\ rt' = [rt EXCEPT !.flight[g] = NoFlight]
    /\ UNCHANGED <<now, caches, nextId, nPosts, ticks, advanced, data, file, nAdmin, tokenCache>>

\* The steps of one goroutine inside PostHandler.
PostSteps(g) ==
    \/ AddEventLock(g)
    \/ AddEventLookup(g)
    \/ AddEventMake(g)
    \/ AddEventAdd(g)
    \/ PostSave(g)

\* The service with its two applications registered, as Init has it.
InitFlight ==
    /\ now = StartTime
    /\ caches = [a \in Apps |-> NoCache]
    /\ store = {}
    /\ nextId = 0
    /\ nPosts = 0
    /\ resp = NoResp
    /\ ticks = 0
    /\ advanced = {}
    /\ rt = Serving
    /\ data = load(save(Registered))
    /\ file = save(Registered)
    /\ nAdmin = 0
    /\ tokenCache = NoTokens

NextFlight ==
    \/ \E g \in Goroutines : PostBegin(g)
    \/ \E g \in Goroutines : PostSteps(g)

SpecFlight == InitFlight /\ [][NextFlight]_vars

\* DeleteAppHandler holds dataMu from its lookup to its save, so no lookup of
\* a key falls inside it; it waits for cachesMu before it removes the cache.
FlightDelete ==
    /\ rt.mapMu = "none"
    /\ \E a \in Apps :
          DeleteAppHandler(AdminRequest("DELETE", a, FALSE, TRUE, <<>>, <<>>,
                                        NoStart))

\* POST /track requests and DELETE requests together.
NextGone ==
    \/ \E g \in Goroutines : PostBegin(g)
    \/ \E g \in Goroutines : PostSteps(g)
    \/ FlightDelete

SpecGone == InitFlight /\ [][NextGone]_vars

----------------------------------------------------------------------------
(* The process: main and gracefulShutdown *)

\* gracefulShutdown: SIGINT or SIGTERM arrives; cancel() cancels a context no
\* goroutine was given and wg.Wait() waits on a WaitGroup nothing was added
\* to, so both return at once.
Signal ==
    /\ rt.main = "serving"
    /\ rt' = [rt EXCEPT !.main = "signalled"]
    /\ OnlyRt

\* gracefulShutdown: server.Shutdown closes the listener and returns once the
\* requests in progress are answered.
ServerShutdown ==
    /\ rt.main = "signalled"
    /\ rt' = [rt EXCEPT !.main = "closed"]
    /\ OnlyRt

\* main: ListenAndServe has returned http.ErrServerClosed, main returns and
\* the process ends with whatever goroutines it still has.
Exit ==
    /\ rt.main = "closed"
    /\ rt' = [rt EXCEPT !.main = "exited"]
    /\ OnlyRt

\* Requests are answered until the listener is closed; the advance tasks run
\* until the process ends.
NextShutdown ==
    \/ rt.main # "exited" /\ TickService
    \/ rt.main # "exited" /\ \E a \in Apps : Advance(a)
    \/ rt.main \in {"serving", "signalled"} /\ PostHandler
    \/ Signal
    \/ ServerShutdown
    \/ Exit

SpecShutdown == InitFlight /\ [][NextShutdown]_vars

----------------------------------------------------------------------------
(* Reading a cache *)

\* All events of the ring, newest bucket first.
RECURSIVE HeldFrom(_, _)
HeldFrom(c, i) ==
    IF i >= CacheWindowMinutes THEN <<>>
    ELSE c.buckets[BucketIndex(c, i)] \o HeldFrom(c, i + 1)

Range(seq) == {seq[k] : k \in 1 .. Len(seq)}

Count(seq, x) == Cardinality({k \in 1 .. Len(seq) : seq[k] = x})

SameMultiset(s, t) ==
    \A x \in Range(s) \cup Range(t) : Count(s, x) = Count(t, x)

\* The offsets whose bucket holds an event with this id.
OffsetsOf(c, id) ==
    {i \in Indices : \E k \in 1 .. Len(c.buckets[BucketIndex(c, i)]) :
                        c.buckets[BucketIndex(c, i)][k].id = id}

HasCache(a) == caches[a] # NoCache

----------------------------------------------------------------------------
(* C4 *)

\* The events of the buckets whose minute (cache_last - offset) is >= m.
RECURSIVE BucketsSince(_, _, _)
BucketsSince(c, m, i) ==
    IF i >= CacheWindowMinutes THEN <<>>
    ELSE (IF cacheLastMinutes(c) - i >= m THEN c.buckets[BucketIndex(c, i)] ELSE <<>>)
         \o BucketsSince(c, m, i + 1)

\* C4: for every reachable cache and every start minute M inside the window
\* (cache_last - (W - 1) <= M <= cache_last), GetEventsSince(M) is exactly the
\* multiset of the events held in the buckets whose bucket minute is >= M.
C4_QueryCoverage ==
    \A a \in Apps : HasCache(a) =>
        \A m \in (cacheLastMinutes(caches[a]) - (CacheWindowMinutes - 1))
                    .. cacheLastMinutes(caches[a]) :
            SameMultiset(GetEventsSince(caches[a], m), BucketsSince(caches[a], m, 0))

----------------------------------------------------------------------------
(* C5 *)

\* C5: for every offset i in [0, W), every event in the bucket at index
\* (current_index - i + W) mod W has its timestamp, truncated to the minute,
\* equal to last_minute - i minutes.
C5_BucketMinute ==
    \A a \in Apps : HasCache(a) =>
        \A i \in Indices :
            \A e \in Range(caches[a].buckets[BucketIndex(caches[a], i)]) :
                TruncateMinute(e.ts) = caches[a].lastMinute - i * SecondsPerMinute

----------------------------------------------------------------------------
(* C6 *)

----------------------------------------------------------------------------
(* C7 *)

\* The Add call that has just returned was given an event outside
\* [oldest_allowed, last_minute].
OutsideWindow(a) ==
    /\ resp.kind = "add"
    /\ resp.app = a
    /\ \/ TruncateMinute(resp.event.ts)
             < caches[a].lastMinute - CacheWindowMinutes * SecondsPerMinute
       \/ TruncateMinute(resp.event.ts) > caches[a].lastMinute

\* A step in which Add was given such an event leaves the ring as it was.
DiscardFrame ==
    \A a \in Apps :
        (HasCache(a) /\ OutsideWindow(a)')
            => /\ HasCache(a)'
               /\ caches'[a].buckets = caches[a].buckets
               /\ caches'[a].currentIndex = caches[a].currentIndex
               /\ caches'[a].lastMinute = caches[a].lastMinute

\* Every Add of an event stamped two minutes ahead of the clock, on a cache
\* that is not behind the clock, and every Add of an event stamped with the
\* current time on a cache at least two minutes behind, is one of those.
DiscardCases ==
    \A a \in Apps : (HasCache(a) /\ resp.kind = "add" /\ resp.app = a) =>
        /\ (Lag(caches[a], now) <= 0 /\ resp.event.ts = now + 2 * SecondsPerMinute)
              => OutsideWindow(a)
        /\ (Lag(caches[a], now) >= 2 /\ resp.event.ts = now) => OutsideWindow(a)

\* C7: an Add of an event whose minute is before oldest_allowed or after
\* last_minute leaves every bucket as it was; so a stale cache drops an event
\* stamped with the current time, and an up-to-date cache drops an event two
\* minutes ahead of the clock.
C7_DiscardLeavesBuckets == [][DiscardFrame]_vars /\ []DiscardCases

\* A stale cache that holds an event has just dropped an event stamped with the
\* current time.
C7_Witness ==
    /\ OutsideWindow("a1")
    /\ resp.event.ts = now
    /\ Lag(caches["a1"], now) >= 2
    /\ Len(HeldFrom(caches["a1"], 0)) = 1

----------------------------------------------------------------------------
(* C8 *)

\* s lists its events bucket by bucket from offset 0 on, and within a bucket in
\* the order of the Add calls (ids are handed out in call order).
InBucketThenAddOrder(c, s) ==
    \A j, k \in 1 .. Len(s) : j < k =>
        \E oj \in OffsetsOf(c, s[j].id), ok \in OffsetsOf(c, s[k].id) :
            \/ oj < ok
            \/ oj = ok /\ s[j].id < s[k].id

\* C8: GetEventsSince returns the events bucket by bucket from the newest
\* minute (offset 0) to the oldest, and within one bucket in the order of the
\* Add calls that admitted them.
C8_Order ==
    \A a \in Apps : HasCache(a) =>
        \A off \in SinceOffsets :
            InBucketThenAddOrder(caches[a],
                GetEventsSince(caches[a], cacheLastMinutes(caches[a]) + off))

\* GetEventsSince has just returned two events of one bucket.
C8_Witness ==
    /\ resp.kind = "since"
    /\ Len(resp.events) = 2
    /\ Cardinality(OffsetsOf(caches["a1"], resp.events[1].id)
                   \cup OffsetsOf(caches["a1"], resp.events[2].id)) = 1

----------------------------------------------------------------------------
(* C1 *)

\* The events held in some bucket of some cache.
Cached ==
    UNION {Range(HeldFrom(caches[a], 0)) : a \in {b \in Apps : HasCache(b)}}

\* C1: every event held in a cache bucket has a durable copy in the store, and
\* when POST /track has answered 500 for a failed store write the event is in
\* no cache bucket.
C1_StoreBeforeCache ==
    /\ \A e \in Cached : \E f \in store : f.event = e
    /\ (resp.kind = "track" /\ resp.status = 500) => resp.event \notin Cached

----------------------------------------------------------------------------
(* C2 *)

\* The events persisted for the application with timestamp minute >= m.
Persisted(appID, m) ==
    {f.event : f \in {g \in store : g.app = appID
                                    /\ toMinutesSinceEpoch(g.event.ts) >= m}}

\* C2: the events tiered retrieval has returned for (app, M) are among the
\* events persisted for app with timestamp minute >= M, and, no warm-up having
\* dropped anything, they are all of them.
C2_TieredEqualsStore ==
    resp.kind = "events" =>
        Range(resp.events) = Persisted(resp.app, resp.startMinutes)

\* C2, the subset half alone.
C2_TieredSubsetOfStore ==
    resp.kind = "events" =>
        Range(resp.events) \subseteq Persisted(resp.app, resp.startMinutes)

----------------------------------------------------------------------------
(* C3 *)

\* C3: getEvents(app, M) scans the store exactly when app has no cache, or
\* M < cache_last - (W - 1), or M > cache_last; otherwise it is a hit and
\* returns GetEventsSince(M) of the application's cache.
C3_HitOrScan ==
    resp.kind = "events" =>
        LET c == caches[resp.app]
            m == resp.startMinutes
            scan == \/ c = NoCache
                    \/ m < cacheLastMinutes(c) - (CacheWindowMinutes - 1)
                    \/ m > cacheLastMinutes(c)
        IN  /\ (resp.source = "disk") <=> scan
            /\ (resp.source = "cache") <=> ~scan
            /\ ~scan => resp.events = GetEventsSince(c, m)
            /\ scan => resp.events =
                          getEventsFromDisk(store, resp.app, m, now).events

\* A query at the first minute of the window of a cache that has advanced was
\* a hit and returned an event.
C3_Witness ==
    /\ resp.kind = "events"
    /\ resp.source = "cache"
    /\ resp.app \in advanced
    /\ resp.startMinutes =
          cacheLastMinutes(caches[resp.app]) - (CacheWindowMinutes - 1)
    /\ Len(resp.events) >= 1

----------------------------------------------------------------------------
(* C9 *)

\* The advance task is inside the write section of advanceEx.
AdvanceInside == rt.advPc \in {"test", "idx", "clear", "last", "unlock"}

\* The first lastMinute of the cache under test, whose currentIndex was 0.
FirstLastMinute == TruncateMinute(StartTime) + SecondsPerMinute

\* A ring between two catch-ups: currentIndex has stepped as often as
\* lastMinute, and every bucket holds events of its own slot only (the minute
\* of the bucket, or that minute less a multiple of W minutes).
Whole(snap) ==
    /\ snap.currentIndex =
          (cacheLastMinutes(snap) - toMinutesSinceEpoch(FirstLastMinute))
              % CacheWindowMinutes
    /\ \A i \in Indices :
          \A e \in Range(snap.buckets[BucketIndex(snap, i)]) :
              (cacheLastMinutes(snap) - i - toMinutesSinceEpoch(e.ts))
                  % CacheWindowMinutes = 0

\* C9: while a query holds the read lock the advance task is not inside a
\* catch-up, and the (current_index, last_minute, buckets) a query has read
\* are those of a ring between two whole catch-ups, never of one where
\* current_index has stepped but last_minute or the clearing has not.
C9_ConsistentSnapshot ==
    /\ rt.mu.readers > 0 => ~AdvanceInside
    /\ rt.qPc = "runlock" =>
          /\ Whole(rt.qSnap)
          /\ rt.qSnap.lastMinute = TheCache.lastMinute
          /\ rt.qSnap.currentIndex = TheCache.currentIndex
          /\ rt.qSnap.buckets = TheCache.buckets

\* A query has read a ring that holds an event of its oldest minute, which
\* the next advance step clears, while the advance task is waiting for the
\* write lock.
C9_Witness ==
    /\ rt.qPc = "runlock"
    /\ rt.advPc = "enter"
    /\ Len(rt.qSnap.buckets[BucketIndex(rt.qSnap, CacheWindowMinutes - 1)]) >= 1

----------------------------------------------------------------------------
(* C10 *)

\* C10: Stop may be called any number of times, also concurrently: close(done)
\* runs at most once, and exactly once when some call has returned; every call
\* returns; and once done is closed the advance task exits, whether it was
\* waiting for the first minute boundary or for a tick.
C10_StopIdempotent ==
    /\ [](rt.closes <= 1)
    /\ [](rt.returned # {} => rt.closes = 1 /\ TheCache.done)
    /\ \A s \in Stoppers : (rt.sPc[s] # "idle") ~> (rt.sPc[s] = "idle")
    /\ TheCache.done ~> (rt.advPc = "exited")

\* Both goroutines' Stop calls have returned, and the advance task, which had
\* caught up once and was waiting for a tick, has exited.
C10_Witness ==
    /\ rt.returned = Stoppers
    /\ rt.closes = 1
    /\ rt.advPc = "exited"
    /\ TheApp \in advanced

----------------------------------------------------------------------------
(* C11 *)

\* A step of the advance task: its position in advance/advanceEx moves.
AdvanceTaskStep == rt'.advPc # rt.advPc

\* C11: once Stop() has returned, current_index and last_minute never change
\* again and no step of the advance task changes a bucket (Add may still
\* append to the buckets of the window as it stands).
C11_FrozenAfterStop ==
    [][rt.returned # {} =>
          /\ caches'[TheApp].currentIndex = caches[TheApp].currentIndex
          /\ caches'[TheApp].lastMinute = caches[TheApp].lastMinute
          /\ AdvanceTaskStep => caches'[TheApp].buckets = caches[TheApp].buckets]_vars

----------------------------------------------------------------------------
(* C12 *)

Abs(x) == IF x < 0 THEN -x ELSE x

\* The request got as far as enrichEvent.
Enriched == resp'.kind = "track" /\ resp'.status \in {200, 500}

\* C12: after enrichment |ts - now_srv| <= 5 minutes for every input: a zero
\* timestamp becomes now_srv, a timestamp with |drift| > 5 minutes (either
\* way) is overwritten with now_srv, one with |drift| <= 5 minutes is kept.
C12_TimestampWithinDrift ==
    [][\A r \in TrackRequests :
          Enriched /\ Track(r, MaxTrackPosts) =>
              LET ts == resp'.event.ts
                  client == r.body.ts
              IN  /\ Abs(ts - now) <= MaxTimestampDrift
                  /\ client = ZeroTime => ts = now
                  /\ client # ZeroTime /\ Abs(client - now) > MaxTimestampDrift
                        => ts = now
                  /\ client # ZeroTime /\ Abs(client - now) <= MaxTimestampDrift
                        => ts = client]_vars

\* An event whose timestamp is exactly five minutes behind the server's clock
\* has been accepted with that timestamp.
C12_Witness ==
    /\ resp.kind = "track"
    /\ resp.status = 200
    /\ resp.event.ts = now - MaxTimestampDrift
    /\ \E f \in store : f.event = resp.event

----------------------------------------------------------------------------
(* C13 *)

\* The same request with another application id in its body.
Renamed(r, x) == [r EXCEPT !.body.app = x]

----------------------------------------------------------------------------
(* C18 *)

\* The status the order of the checks gives request r, 0 standing for a
\* request that passes them all.
FirstFault(r) ==
    IF r.method # "POST" THEN 405
    ELSE IF r.apiKey = "" \/ GetAppByAPIKey(data, r.apiKey) = {} THEN 401
    ELSE IF ~r.decodes THEN 400
    ELSE 0

\* C18: POST /track decides in this order: a method other than POST gives
\* 405; a missing or unknown X-API-Key gives 401; an undecodable body gives
\* 400; a request that passes these is answered 500 (the store write failed)
\* or 200 with the event's id, the event being in the store. On 405, 401 and
\* 400 neither the store nor any cache changes.
C18_TrackOutcomeOrder ==
    [][\A r \in TrackRequests :
          Track(r, MaxTrackPosts) =>
              /\ resp'.kind = "track"
              /\ IF FirstFault(r) # 0
                 THEN /\ resp'.status = FirstFault(r)
                      /\ store' = store
                      /\ caches' = caches
                 ELSE /\ resp'.status \in {200, 500}
                      /\ resp'.status = 200 =>
                            /\ resp'.event.id =
                                  (IF r.body.id = 0 THEN nextId + 1 ELSE r.body.id)
                            /\ \E f \in store' : f.event = resp'.event]_vars

\* A request has been refused for its body after an event had been accepted:
\* the store and the cache hold that event and nothing else.
C18_Witness ==
    /\ resp.kind = "track"
    /\ resp.status = 400
    /\ nPosts = 1
    /\ Cardinality(store) = 1
    /\ \E a \in Apps : caches[a] # NoCache

----------------------------------------------------------------------------
(* C14 *)

\* Request r asks to create an application whose derived id is taken.
Collides(r) ==
    /\ r.method = "POST"
    /\ r.decodes
    /\ decodeString(r.name) # <<>>
    /\ data[hashID(decodeString(r.name))] # NoApp

\* C14: creating an application whose derived id already exists in the
\* registry returns the "already exists" error (no 201), and leaves the
\* registry (so the existing record's name, API key, created_at and origins)
\* and the persisted document unchanged.
C14_CreateConflict ==
    [][resp'.kind = "create" =>
          \A r \in AdminRequests :
              Collides(r) /\ CrudHandler(r) =>
                  /\ resp'.status >= 400
                  /\ resp'.err = "exists"
                  /\ data' = data
                  /\ file' = file]_vars

\* A create request has been refused because its id is taken; the entry in
\* the registry, and the document, are those of the first creation.
C14_Witness ==
    /\ resp.kind = "create"
    /\ resp.status = 500
    /\ resp.err = "exists"
    /\ data["a1"] # NoApp
    /\ data["a1"].apiKey = "k1"
    /\ load(file) = data

----------------------------------------------------------------------------
(* C15 *)

\* A create, update or delete request has been answered 500.
AdminFailed == nAdmin' # nAdmin /\ resp'.status = 500

\* C15: when a registry mutation (create, update, delete) fails to persist
\* the document, the in-memory registry is as it was before the request: the
\* application is absent after a failed create, has its old name and origins
\* after a failed update, and is still there with its cache after a failed
\* delete.
C15_RollbackOnSaveFailure ==
    [][AdminFailed => data' = data /\ caches' = caches]_vars

----------------------------------------------------------------------------
(* C16 *)

\* C16: a successful DELETE of an application removes its registry entry and
\* its cache (right after it the id is in neither map, and GetAppByAPIKey
\* with its key fails); a DELETE of an id the registry does not have answers
\* 404 and changes nothing.
C16_DeleteRemovesBoth ==
    [][resp'.kind = "delete" =>
          \A r \in AdminRequests :
              r.method = "DELETE" /\ r.app # "" /\ CrudHandler(r) =>
                  /\ resp'.status = 204 =>
                        /\ data[r.app] # NoApp
                        /\ data'[r.app] = NoApp
                        /\ caches'[r.app] = NoCache
                        /\ GetAppByAPIKey(data', data[r.app].apiKey) = {}
                  /\ data[r.app] = NoApp =>
                        /\ resp'.status = 404
                        /\ data' = data
                        /\ caches' = caches
                        /\ file' = file
                        /\ store' = store]_vars

\* An application that had received an event (so had a cache) has been
\* deleted: it is gone from the registry, the cache map and the document.
C16_Witness ==
    /\ resp.kind = "delete"
    /\ resp.status = 204
    /\ \E f \in store : /\ data[f.app] = NoApp
                        /\ caches[f.app] = NoCache
                        /\ f.app \notin DOMAIN file.apps

----------------------------------------------------------------------------
(* C17 *)

\* The last registry request was answered with a success status, so its save
\* went through.
AdminSaved ==
    /\ resp.kind \in {"create", "update", "delete"}
    /\ resp.status \in {200, 201, 204}

\* C17: for every registry state reachable by create, update and delete,
\* saving it and loading the result gives an equal registry (the same ids,
\* each with the same name, API key, created_at and allowed origins); so
\* after a request whose save succeeded, loading the document gives the
\* registry in memory.
C17_SaveLoadRoundTrip ==
    /\ load(save(data)) = data
    /\ AdminSaved => load(file) = data

\* Two applications are registered and saved, one under a name with a
\* replaced byte or an escaped character, one with a list of origins.
C17_Witness ==
    /\ AdminSaved
    /\ \A a \in Apps : data[a] # NoApp
    /\ \E a \in Apps : Len(data[a].name) = 2
    /\ \E a \in Apps : data[a].origins # <<>>
    /\ file = save(data)

----------------------------------------------------------------------------
(* C19 *)

\* Request r is a query whose path or start parameter is malformed.
Malformed(r) == r.app = "" \/ (r.start.given /\ ~r.start.parses)

\* C19: GET /apps/<id>/events answers 400 when the path has no application
\* id or start-minutes-since-epoch is not an integer, 404 when <id> is not
\* the id of an application in the registry, and never 200 for an unknown
\* application.
C19_UnknownAppNotFound ==
    [][resp'.kind = "events" =>
          \A r \in AdminRequests :
              r.method = "GET" /\ r.events /\ CrudHandler(r) =>
                  /\ Malformed(r) => resp'.status = 400
                  /\ ~Malformed(r) /\ data[r.app] = NoApp => resp'.status = 404
                  /\ resp'.status = 200 => data[r.app] # NoApp]_vars

----------------------------------------------------------------------------
(* C20 *)

\* Request r comes with an Origin header and is not a preflight.
FromPage(r) == r.origin # "" /\ r.method # "OPTIONS"

\* The key of request r is missing or belongs to no application.
BadKey(r) == r.apiKey = "" \/ GetAppByAPIKey(data, r.apiKey) = {}

\* The application of r's key does not list r's origin.
OriginNotListed(r) ==
    LET app == data[CHOOSE a \in GetAppByAPIKey(data, r.apiKey) : TRUE]
    IN  \A k \in 1 .. Len(app.origins) : app.origins[k] # r.origin

\* The wrapper answered with this status and the wrapped handler did not run.
RefusedByCors(status) ==
    /\ resp' = [kind |-> "cors", status |-> status]
    /\ caches' = caches
    /\ store' = store
    /\ nPosts' = nPosts

\* C20: a non-preflight request with an Origin header is refused with 401 if
\* its X-API-Key is missing or unknown, and with 403 if the key is valid but
\* its application does not list the origin, the wrapped handler not being
\* invoked in either case; a request without an Origin header is always
\* passed to the wrapped handler, with no check.
C20_CorsRejects ==
    [][\A r \in RouteTrackRequests :
          TrackRoute(r) =>
              /\ FromPage(r) /\ BadKey(r) => RefusedByCors(401)
              /\ FromPage(r) /\ ~BadKey(r) /\ OriginNotListed(r)
                    => RefusedByCors(403)
              /\ r.origin = "" =>
                    resp'.kind = "track" /\ Track(r, MaxRegPosts)]_vars

\* A request with the key of an application that lists some origin has been
\* refused with 403: it came from another origin.
C20_Witness ==
    /\ resp = [kind |-> "cors", status |-> 403]
    /\ \E a \in Apps : /\ data[a] # NoApp
                       /\ data[a].apiKey = "k1"
                       /\ data[a].origins # <<>>
    /\ store = {}

----------------------------------------------------------------------------
(* C25 *)

\* The Add call on application a that has just returned was given an event
\* whose minute lies in [oldest_allowed, last_minute] of the cache it met.
AddAccepted(a) ==
    /\ resp'.kind = "add"
    /\ resp'.app = a
    /\ HasCache(a)
    /\ oldestAllowed(caches[a]) <= TruncateMinute(resp'.event.ts)
    /\ TruncateMinute(resp'.event.ts) <= caches[a].lastMinute

\* diff of the event of the call: (last_minute - e_min) in minutes.
AddDiff(a) ==
    (caches[a].lastMinute - TruncateMinute(resp'.event.ts)) \div SecondsPerMinute

----------------------------------------------------------------------------
(* C26 *)

\* The step is an Add call on application a returning.
AddReturned(a) ==
    /\ resp'.kind = "add"
    /\ resp'.app = a
    /\ HasCache(a)

\* The step changes current_index or last_minute of the cache of a.
RingMoved(a) ==
    /\ HasCache(a)
    /\ caches'[a] # NoCache
    /\ \/ caches'[a].currentIndex # caches[a].currentIndex
       \/ caches'[a].lastMinute # caches[a].lastMinute

\* C26: Add never changes current_index or last_minute, whatever the event
\* timestamp; an accepted Add grows exactly one bucket by exactly one element
\* (the event) and leaves every other bucket unchanged; a step that changes
\* current_index or last_minute is a step of the advance task.
C26_AddFrame ==
    [][\A a \in Apps :
          /\ AddReturned(a) =>
                /\ caches'[a].currentIndex = caches[a].currentIndex
                /\ caches'[a].lastMinute = caches[a].lastMinute
          /\ AddAccepted(a) =>
                \E i \in Indices :
                    /\ caches'[a].buckets[i] = Append(caches[a].buckets[i], resp'.event)
                    /\ \A j \in Indices \ {i} :
                          caches'[a].buckets[j] = caches[a].buckets[j]
          /\ RingMoved(a) => Advance(a)]_vars

\* An Add call has returned that was given an event of two minutes past the
\* clock (later than last_minute), on a cache already holding an accepted
\* event, and last_minute is still the minute the cache was made with.
C26_Witness ==
    /\ resp.kind = "add"
    /\ HasCache("a1")
    /\ resp.event.ts > caches["a1"].lastMinute
    /\ Len(HeldFrom(caches["a1"], 0)) = 1
    /\ "a1" \notin advanced
    /\ caches["a1"].currentIndex = 0
    /\ caches["a1"].lastMinute = TruncateMinute(StartTime) + SecondsPerMinute

----------------------------------------------------------------------------
(* C30 *)

\* The indices GetEventsSince and the next step of the catch-up loop compute
\* from this cache, with the remainder taken as the program takes it.
SinceIndices(c) ==
    {GoRem(c.currentIndex - i + CacheWindowMinutes, CacheWindowMinutes) : i \in Indices}

StepIndex(c) == GoRem(c.currentIndex + 1, CacheWindowMinutes)

IndicesInRange ==
    \A a \in Apps : HasCache(a) =>
        /\ caches[a].currentIndex \in Indices
        /\ SinceIndices(caches[a]) \subseteq Indices
        /\ StepIndex(caches[a]) \in Indices

\* The Add call that returns in this step kept its event.
AddKept(a) ==
    /\ AddReturned(a)
    /\ caches'[a] # caches[a]

\* C30: in every reachable state 0 <= current_index < W and every index
\* GetEventsSince and advance compute lies in [0, W); for every event Add
\* keeps, diff lies in [0, W] and the index (current_index - diff + W) mod W,
\* with the remainder the program computes, lies in [0, W) and names the
\* bucket the event went to.
C30_IndicesInRange ==
    /\ []IndicesInRange
    /\ [][\A a \in Apps : AddKept(a) =>
             LET index == GoRem(caches[a].currentIndex - AddDiff(a) + CacheWindowMinutes,
                                CacheWindowMinutes)
             IN  /\ AddDiff(a) \in 0 .. CacheWindowMinutes
                 /\ index \in Indices
                 /\ caches'[a].buckets[index]
                       = Append(caches[a].buckets[index], resp'.event)]_vars

\* An Add call has returned on a cache that has advanced, having kept an event
\* whose diff is larger than current_index, so that the index wrapped around
\* the end of the array.
C30_Witness ==
    /\ resp.kind = "add"
    /\ HasCache("a1")
    /\ "a1" \in advanced
    /\ caches["a1"].currentIndex > 0
    /\ (caches["a1"].lastMinute - TruncateMinute(resp.event.ts)) \div SecondsPerMinute
          > caches["a1"].currentIndex
    /\ resp.event \in Range(HeldFrom(caches["a1"], 0))

----------------------------------------------------------------------------
(* C29 *)

\* The cache NewEventCache returns at the current time.
FreshCache(c) ==
    /\ c.currentIndex = 0
    /\ \A i \in Indices : c.buckets[i] = <<>>
    /\ c.lastMinute = TruncateMinute(now) + SecondsPerMinute

\* C29: NewEventCache starts with current_index = 0, all buckets empty and
\* last_minute = truncate(now) + 1 minute; while the advance task is running
\* last_minute is never later than the current wall-clock minute plus one
\* minute, and every catch-up (also after a pause of many minutes)
\* re-establishes last_minute = truncate(now) + 1 minute; so Add never keeps an
\* event whose minute is more than one minute ahead of the server clock.
C29_LastMinuteAhead ==
    /\ \A a \in Apps : HasCache(a) => FreshCache(caches[a])
    /\ [](\A a \in Apps : (HasCache(a) /\ caches[a].task # "exited") =>
              caches[a].lastMinute <= TruncateMinute(now) + SecondsPerMinute)
    /\ [][\A a \in Apps :
             /\ Advance(a) =>
                   caches'[a].lastMinute = TruncateMinute(now') + SecondsPerMinute
             /\ AddKept(a) =>
                   TruncateMinute(resp'.event.ts)
                       <= TruncateMinute(now) + SecondsPerMinute]_vars

\* After a pause of many minutes the advance task has caught up: last_minute
\* is the minute after the current one, more than one step from where it was.
C29_Witness ==
    /\ HasCache("a1")
    /\ "a1" \in advanced
    /\ now >= StartTime + PauseSeconds
    /\ caches["a1"].currentIndex > 1
    /\ caches["a1"].lastMinute = TruncateMinute(now) + SecondsPerMinute

----------------------------------------------------------------------------
(* C27 *)

\* k of the catch-up this step performs on the cache of a: the minutes
\* last_minute moves by.
CatchUpSteps(a) ==
    (caches'[a].lastMinute - caches[a].lastMinute) \div SecondsPerMinute

\* The buckets current_index newly points to during a catch-up of k steps.
NewlyPointed(c, k) ==
    {(c.currentIndex + j) % CacheWindowMinutes : j \in 1 .. k}

\* What a catch-up of k steps does to the ring.
RingForward(a, k) ==
    /\ caches'[a].lastMinute = caches[a].lastMinute + k * SecondsPerMinute
    /\ caches'[a].currentIndex = (caches[a].currentIndex + k) % CacheWindowMinutes
    /\ \A i \in NewlyPointed(caches[a], k) : caches'[a].buckets[i] = <<>>
    /\ \A i \in Indices \ NewlyPointed(caches[a], k) :
          caches'[a].buckets[i] = caches[a].buckets[i]

\* C27 as stated: every catch-up performed by the advance task moves the ring
\* forward by some k >= 1 steps: last_minute_new = last_minute_old + k minutes,
\* current_index_new = (current_index_old + k) mod W, and every bucket that
\* current_index newly pointed to is empty afterwards.
C27_EveryCatchUpMoves ==
    [][\A a \in Apps : Advance(a) =>
          /\ CatchUpSteps(a) >= 1
          /\ RingForward(a, CatchUpSteps(a))]_vars

\* C27 amended: every catch-up moves the ring forward by some k >= 0 steps,
\* with k >= 1 exactly when last_minute is behind truncate(now) + 1 minute as
\* the catch-up starts; last_minute_new = last_minute_old + k minutes,
\* current_index_new = (current_index_old + k) mod W, every bucket
\* current_index newly pointed to is empty afterwards, and no other bucket
\* changes.
C27_CatchUpSteps ==
    [][\A a \in Apps : Advance(a) =>
          /\ CatchUpSteps(a) >= 0
          /\ CatchUpSteps(a) >= 1
                <=> caches[a].lastMinute < TruncateMinute(now) + SecondsPerMinute
          /\ RingForward(a, CatchUpSteps(a))]_vars

\* The ticker has woken the advance task a second time within one wall-clock
\* minute: a tick is due and last_minute is already the minute after the
\* current one, so the catch-up about to run has nothing to catch up.
C27_Witness ==
    /\ HasCache("a1")
    /\ caches["a1"].task = "tick"
    /\ now >= caches["a1"].wake
    /\ caches["a1"].lastMinute = TruncateMinute(now) + SecondsPerMinute

----------------------------------------------------------------------------
(* C28 *)

\* The events of the bucket at offset i from current_index.
AtOffset(c, i) == Range(c.buckets[BucketIndex(c, i)])

\* Every event the cache holds.
Held(c) == UNION {Range(c.buckets[i]) : i \in Indices}

\* GetEventsSince, asked for the minute of the event, returns it.
Retrievable(c, e) ==
    e \in Range(GetEventsSince(c, toMinutesSinceEpoch(e.ts)))

\* The first half of the example, for any cache: a catch-up of one step from
\* a cache with an event in its current bucket moves last_minute by a minute
\* and current_index by one, leaves the bucket current_index comes to empty,
\* and the event is still retrievable.
OneStepKeeps(a) ==
    (CatchUpSteps(a) = 1) =>
        /\ caches'[a].lastMinute = caches[a].lastMinute + SecondsPerMinute
        /\ caches'[a].currentIndex
              = (caches[a].currentIndex + 1) % CacheWindowMinutes
        /\ caches'[a].buckets[caches'[a].currentIndex] = <<>>
        /\ \A e \in AtOffset(caches[a], 0) : Retrievable(caches'[a], e)

\* C28 as stated: after one advance step from a cache with an event in the
\* bucket at current_index, last_minute is one minute later, current_index one
\* further, the bucket there is empty and the event is still retrievable; the
\* next advance step evicts the event, which is then one bucket behind
\* current_index.
C28_EvictedOnNextStep ==
    [][\A a \in Apps : Advance(a) =>
          /\ OneStepKeeps(a)
          /\ (CatchUpSteps(a) >= 1) =>
                \A e \in AtOffset(caches[a], 1) : e \notin Held(caches'[a])
          /\ (CatchUpSteps(a) >= 2) =>
                \A e \in AtOffset(caches[a], 0) : e \notin Held(caches'[a])]_vars

\* C28 amended: after one advance step from a cache with an event in the
\* bucket at current_index, last_minute is one minute later, current_index one
\* further, the bucket there is empty and the event is still retrievable; an
\* event i buckets behind current_index stays retrievable through the next
\* W - 1 - i advance steps and is evicted by the step after those, so the
\* event of the example is evicted by the W-th (30th) advance step, the one
\* that brings current_index back to its bucket.
C28_EvictedAfterWSteps ==
    [][\A a \in Apps : Advance(a) =>
          /\ OneStepKeeps(a)
          /\ \A i \in Indices : \A e \in AtOffset(caches[a], i) :
                IF i + CatchUpSteps(a) < CacheWindowMinutes
                THEN /\ e \in AtOffset(caches'[a], i + CatchUpSteps(a))
                     /\ Retrievable(caches'[a], e)
                ELSE e \notin Held(caches'[a])]_vars

\* An event that went to the bucket at current_index is still held after the
\* ring has moved 28 steps on.
C28_Witness ==
    /\ HasCache("a1")
    /\ "a1" \in advanced
    /\ caches["a1"].task = "tick"
    /\ \E e \in AtOffset(caches["a1"], 28) :
          /\ TruncateMinute(e.ts) = caches["a1"].lastMinute - 28 * SecondsPerMinute
          /\ Retrievable(caches["a1"], e)

----------------------------------------------------------------------------
(* C23 *)

\* C23: toMinutesSinceEpoch(t) equals floor(unix_seconds(t) / 60) for every
\* instant t, also before the Unix epoch, the seconds and milliseconds within
\* the minute being discarded: the result is the minute m with
\* m * 60000 <= t < (m + 1) * 60000 in milliseconds.
C23_FloorMinutes ==
    resp.kind = "minutes" =>
        /\ resp.minutes = resp.ms \div 60000
        /\ resp.minutes * 60000 <= resp.ms
        /\ resp.ms < (resp.minutes + 1) * 60000

----------------------------------------------------------------------------
(* C21 *)

\* The events persisted for the application with timestamp minute >= m.
PersistedSince(appID, m) ==
    {f.event : f \in {g \in store : /\ IsEventFile(g)
                                     /\ g.app = appID
                                     /\ g.event.ts \div SecondsPerMinute >= m}}

\* C21: a store scan getEventsFromDisk(app, M) that does not fail returns
\* every event persisted for the application whose timestamp minute is >= M
\* and no other event, also when an event was persisted close to UTC midnight
\* and the date of its timestamp is not the server date that names its
\* directory.
C21_ScanReturnsPersisted ==
    (resp.kind = "scan" /\ ~resp.err) =>
        Range(resp.events) = PersistedSince(resp.app, resp.startMinutes)

\* C21, the half that holds: a scan returns no event of another application
\* and none with a smaller minute.
C21_ScanSubsetOfPersisted ==
    (resp.kind = "scan" /\ ~resp.err) =>
        Range(resp.events) \subseteq PersistedSince(resp.app, resp.startMinutes)

----------------------------------------------------------------------------
(* C22 *)

\* The day directories a scan for start minute m at time t goes through.
ScannedDays(m, t) ==
    {d \in {f.day : f \in store} :
        /\ TruncateDay(m * SecondsPerMinute) <= d
        /\ d <= TruncateDay(t)}

\* How many entries the directory of the application for the day has.
EntriesIn(appID, d) ==
    Cardinality({f \in store : IsEventFile(f) /\ f.app = appID /\ f.day = d})
    + (IF InvalidJson \in store /\ InvalidJson.app = appID /\ InvalidJson.day = d
       THEN 1 ELSE 0)
    + (IF OtherEntries \in store /\ OtherEntries.app = appID /\ OtherEntries.day = d
       THEN MaxDirEntries ELSE 0)

\* The events of the application in the days scanned with minute >= m.
ReadableSince(appID, m, t) ==
    {f.event : f \in {g \in store : /\ IsEventFile(g)
                                     /\ g.app = appID
                                     /\ g.day \in ScannedDays(m, t)
                                     /\ g.event.ts \div SecondsPerMinute >= m}}

\* C22: a store scan fails, returning no events, exactly when one of the day
\* directories it goes through has more than 10,000 entries; a file that does
\* not decode is skipped, so that the scan still returns the events of the
\* other files of the days scanned; an application or a day without a
\* directory gives an empty result and no error.
C22_ScanErrors ==
    resp.kind = "scan" =>
        LET days == ScannedDays(resp.startMinutes, now)
            over == \E d \in days : EntriesIn(resp.app, d) > 10000
        IN  /\ resp.err <=> over
            /\ resp.err => resp.events = <<>>
            /\ ~resp.err =>
                  Range(resp.events) = ReadableSince(resp.app, resp.startMinutes, now)
            /\ (\A d \in days : EntriesIn(resp.app, d) = 0) =>
                  (~resp.err /\ resp.events = <<>>)

\* A scan has failed: the directory of the day holds an event the tracker
\* saved and 10,000 entries besides.
C22_Witness ==
    /\ resp.kind = "scan"
    /\ resp.err
    /\ resp.events = <<>>
    /\ \E f \in store : IsEventFile(f) /\ f.app = resp.app
    /\ OtherEntries \in store
    /\ InvalidJson \notin store

----------------------------------------------------------------------------
(* C24 *)

\* The request that has just been answered carried "Bearer " and a token.
BearerGiven == resp'.header.scheme = "bearer" /\ resp'.header.token # ""

\* Its token had an entry in the token cache that had not expired.
CachedToken ==
    /\ BearerGiven
    /\ tokenCache[resp'.header.token] # NoEntry
    /\ now <= tokenCache[resp'.header.token].expiration

\* Validation of its token fails whoever fetches the keys: it was not signed
\* by Firebase, or its exp has passed.
Invalid(tok) ==
    \/ ~TokenSigned(tok)
    \/ HasExp(tok) /\ now >= TokenExp(tok)

\* C24: in the admin-auth middleware a request without a bearer token, or
\* with an empty one, is rejected with 401; one whose token is in the token
\* cache is passed to the next handler with the cached user id, without
\* validation; one whose token is not there, or whose entry has expired, is
\* validated, and rejected with 403 if validation fails; and a token is put
\* in the cache only after it has been validated and when its remaining
\* lifetime exp - now is positive.
C24_TokenCache ==
    [][resp'.kind = "auth" =>
          /\ ~BearerGiven =>
                (resp'.status = 401 /\ ~resp'.verified /\ tokenCache' = tokenCache)
          /\ CachedToken =>
                /\ resp'.status = 200
                /\ resp'.user = tokenCache[resp'.header.token].userID
                /\ ~resp'.verified
                /\ tokenCache' = tokenCache
          /\ (BearerGiven /\ ~CachedToken) =>
                /\ resp'.verified
                /\ resp'.status \in {200, 403}
                /\ Invalid(resp'.header.token) =>
                      (resp'.status = 403 /\ tokenCache' = tokenCache)
          /\ \A t \in Tokens : tokenCache'[t] # tokenCache[t] =>
                /\ t = resp'.header.token
                /\ resp'.status = 200
                /\ resp'.verified
                /\ HasExp(t)
                /\ TokenExp(t) - now' > 0
                /\ tokenCache'[t].userID = TokenSub(t)
                /\ tokenCache'[t].expiration = TokenExp(t)]_vars

\* A token whose entry in the cache has expired has been validated again and
\* rejected with 403.
C24_Witness ==
    /\ resp.kind = "auth"
    /\ resp.status = 403
    /\ resp.verified
    /\ resp.header.scheme = "bearer"
    /\ resp.header.token = "t1"
    /\ tokenCache["t1"] # NoEntry
    /\ now > tokenCache["t1"].expiration

----------------------------------------------------------------------------
(* C39 *)

\* The events of the bucket at offset i from current_index whose minute is W
\* minutes before the minute of that bucket: they were admitted with minute
\* last_minute - W.
Oldest(c, i) ==
    {e \in AtOffset(c, i) :
        TruncateMinute(e.ts)
            = c.lastMinute - (i + CacheWindowMinutes) * SecondsPerMinute}

\* The start minutes for which getEventsFromCache is a hit.
HitStarts(c) ==
    (cacheLastMinutes(c) - (CacheWindowMinutes - 1)) .. cacheLastMinutes(c)

\* Every event the cache holds that was admitted with minute last_minute - W.
OldestHeld(c) == UNION {Oldest(c, i) : i \in Indices}

\* No hit returns an event admitted with minute last_minute - W.
OldestHidden ==
    \A a \in Apps : HasCache(a) =>
        LET held == OldestHeld(caches[a])
        IN  held # {} =>
                \A m \in HitStarts(caches[a]) :
                    LET hit == getEventsFromCache(caches, a, m)
                    IN  hit[1] /\ \A e \in held : e \notin Range(hit[2])

\* The answer to a query that was a hit holds no event older than the window.
HitAnswerInWindow ==
    (resp.kind = "events" /\ resp.status = 200 /\ resp.source = "cache") =>
        /\ resp.startMinutes \in HitStarts(caches[resp.app])
        /\ \A e \in Range(resp.events) : e \notin OldestHeld(caches[resp.app])

\* Add puts an event of minute last_minute - W where it puts one of minute
\* last_minute: at the end of the bucket at current_index.
OldestAdmitted(a) ==
    LET c == caches[a]
        e == resp'.event
    IN  (/\ resp'.kind = "add"
         /\ TruncateMinute(e.ts)
               = c.lastMinute - CacheWindowMinutes * SecondsPerMinute) =>
            /\ AddIndex(c, e) = AddIndex(c, Event(e.id, c.lastMinute, a))
            /\ caches'[a].buckets[c.currentIndex]
                  = Append(c.buckets[c.currentIndex], e)

\* A catch-up of k steps leaves such an event in its bucket, k further behind
\* current_index, unless current_index comes round to that bucket.
OldestStays(a) ==
    \A i \in Indices : \A e \in Oldest(caches[a], i) :
        IF i + CatchUpSteps(a) < CacheWindowMinutes
        THEN e \in Oldest(caches'[a], i + CatchUpSteps(a))
        ELSE e \notin Held(caches'[a])

----------------------------------------------------------------------------
(* C33 *)

\* A writer (Add or the advance task) has asked for the cache's lock and waits
\* for the readers to leave.
WriterWaits == rt.mu.w # "none" /\ ~rt.mu.active /\ rt.mu.readers > 0

\* The query holds the read lock it took in getEventsFromCache and waits in
\* GetEventsSince for the same lock again.
QueryWaitsInside == rt.qPc = "rlock2" /\ rt.qNested /\ ~CanRLock(rt.mu)

\* C33: no deadlock is reachable among tiered queries, admissions and the
\* advance task on one cache: the query that holds the read lock and asks for
\* it again is never waiting behind a writer that waits for that query to
\* release it, so each of these calls can go on and return.
C33_NoDeadlock == ~(QueryWaitsInside /\ WriterWaits)

----------------------------------------------------------------------------
(* C31 *)

\* The buckets of the caches there are: <<application, index>>.
Buckets == {<<a, i>> \in Apps \X Indices : HasCache(a)}

\* The event ids in a bucket.
IdsIn(b) == {e.id : e \in Range(caches[b[1]].buckets[b[2]])}

\* No event id is in a bucket twice.
OnceInBucket(b) ==
    LET bucket == caches[b[1]].buckets[b[2]]
    IN  \A j, k \in DOMAIN bucket : j # k => bucket[j].id # bucket[k].id

\* C31: after any sequence of ingestions and advance steps an ingested event,
\* identified by its event_id, occupies zero or one cache bucket: it is never
\* in two buckets of a cache, twice in one bucket, or in the caches of two
\* applications.
C31_OneBucket ==
    \A b \in Buckets :
        /\ OnceInBucket(b)
        /\ \A c \in Buckets \ {b} : IdsIn(b) \cap IdsIn(c) = {}

----------------------------------------------------------------------------
(* C36 *)

\* The events AddEvent has passed to Add for application a, each with the
\* number of the cache it went to (the n-th made for a).
OfferedTo(a) == {o \in rt.offered : o.app = a}

\* C36: for any interleaving of concurrent AddEvent calls for an application
\* that has no cache yet, exactly one EventCache (and so one advance task) is
\* made for it, every one of the events is offered to that cache, and none
\* went to a cache that was then replaced: each is in the cache the map holds.
C36_SingleCache ==
    \A a \in Apps :
        /\ rt.created[a] <= 1
        /\ HasCache(a) <=> rt.created[a] = 1
        /\ \A o \in OfferedTo(a) :
              /\ o.cache = 1
              /\ o.event \in Held(caches[a])
        /\ \A g \in Goroutines :
              (rt.flight[g].pc = "save" /\ rt.flight[g].app = a) =>
                  rt.flight[g].event \in Held(caches[a])

\* Two requests for the application are past AddEvent at once, with different
\* events, and one cache has been made for it.
C36_Witness ==
    /\ rt.flight["g1"].pc = "save"
    /\ rt.flight["g2"].pc = "save"
    /\ rt.flight["g1"].app = "a1"
    /\ rt.flight["g2"].app = "a1"
    /\ rt.flight["g1"].event # rt.flight["g2"].event
    /\ rt.created["a1"] = 1
    /\ Cardinality(OfferedTo("a1")) = 2

----------------------------------------------------------------------------
(* C37 *)

\* C37: in every reachable state, also when a DELETE of an application
\* interleaves with a POST /track that was authenticated before the deletion,
\* every key of the cache map is the id of an application in the registry.
C37_CachesOfRegistered ==
    \A a \in Apps : HasCache(a) => data[a] # NoApp

----------------------------------------------------------------------------
(* C32 *)

\* Stop() has been called on every cache the map holds: its done channel is
\* closed.
AllStopped == \A a \in Apps : HasCache(a) => caches[a].done

\* C32: on SIGINT/SIGTERM the shutdown path signals every live cache's
\* advance task to stop (Stop() on each per-application cache): once
\* gracefulShutdown has closed the server, every cache's done channel is
\* closed, so that no advance task goes on running.
C32_ShutdownStopsTasks ==
    rt.main \in {"closed", "exited"} => AllStopped

----------------------------------------------------------------------------
(* C34 *)

\* Every query for application a that is a hit on caches cs and asks for the
\* minute of e or an earlier one returns e.
ReadBack(cs, a, e) ==
    \A m \in HitStarts(cs[a]) :
        m <= toMinutesSinceEpoch(e.ts) =>
            LET hit == getEventsFromCache(cs, a, m)
            IN  hit[1] /\ e \in Range(hit[2])

\* This step is a POST /track for a answered with success, whose event's
\* minute was inside the window of a's cache (the one AddEvent made, if there
\* was none) at admission.
AdmittedInWindow(a) ==
    LET e == resp'.event
        c == IF caches[a] = NoCache THEN NewEventCache(now) ELSE caches[a]
    IN  /\ nPosts' # nPosts
        /\ resp'.kind = "track"
        /\ resp'.status = 200
        /\ e.app = a
        /\ TruncateMinute(e.ts) <= c.lastMinute
        /\ TruncateMinute(e.ts)
              >= c.lastMinute - (CacheWindowMinutes - 1) * SecondsPerMinute

\* C34: read-your-writes inside the window. Once POST /track has answered
\* success for an event whose minute m was inside the window at admission,
\* every tiered query for the application with M <= m that is a cache hit
\* contains the event, and goes on containing it through every later step
\* (admissions, advance steps, queries) for as long as such a hit is possible,
\* that is until W advance steps have passed since minute m was last_minute.
C34_ReadYourWrites ==
    [][\A a \in Apps :
          /\ AdmittedInWindow(a) => ReadBack(caches', a, resp'.event)
          /\ (HasCache(a) /\ caches'[a] # caches[a]) =>
                /\ caches'[a] # NoCache
                /\ \A e \in Held(caches[a]) :
                      ReadBack(caches', a, e) \/ ~ReadBack(caches, a, e)]_vars

\* An event posted with success 28 minutes ago has just been returned by a
\* query at the first minute of the window of a2's cache, which has advanced.
C34_Witness ==
    /\ resp.kind = "events"
    /\ resp.status = 200
    /\ resp.app = "a2"
    /\ resp.source = "cache"
    /\ "a2" \in advanced
    /\ \E e \in Range(resp.events) :
          /\ e # Earlier
          /\ [app |-> "a2", day |-> TruncateDay(e.ts), event |-> e] \in store
          /\ toMinutesSinceEpoch(e.ts) = resp.startMinutes
          /\ resp.startMinutes
                = cacheLastMinutes(caches["a2"]) - (CacheWindowMinutes - 1)

----------------------------------------------------------------------------
(* C35 *)

\* The files of the store under data/<a>/.
DirOf(st, a) == {f \in st : f.app = a}

\* C35: applications are isolated. An ingestion for application A changes
\* neither the cache nor the store directory of another application B, and a
\* tiered query for A, cache hit or store scan, returns only events ingested
\* under A's key. (It fails: an event id that climbs out of A's directory
\* puts A's event in B's, where B's store scan finds it.)
C35_Isolation ==
    /\ []((resp.kind = "events" /\ resp.status = 200) =>
             \A e \in Range(resp.events) : e.app = resp.app)
    /\ [][(nPosts' # nPosts /\ resp'.kind = "track") =>
             \A b \in Apps \ {resp'.event.app} :
                 /\ caches'[b] = caches[b]
                 /\ DirOf(store', b) = DirOf(store, b)]_vars

----------------------------------------------------------------------------
(* C38 *)

\* The advance task of the cache is up to date.
UpToDate(c) == c.lastMinute = TruncateMinute(now) + SecondsPerMinute

\* C38: when the advance task is up to date (last_minute = wall-clock minute
\* + 1), a query without the start-minutes-since-epoch parameter uses
\* M = minutes_since_epoch(now) - W, which is below cache_window_start
\* = minutes_since_epoch(last_minute) - (W - 1): it is a cache miss and is
\* served by the store scan, never by the cache.
C38_DefaultQueryMisses ==
    [][\A a \in Apps :
          (/\ resp'.kind = "events"
           /\ HasCache(a)
           /\ UpToDate(caches[a])
           /\ GetEvents([method |-> "GET", app |-> a, start |-> NoStart])) =>
              /\ resp'.status = 200
              /\ resp'.startMinutes = toMinutesSinceEpoch(now) - CacheWindowMinutes
              /\ resp'.startMinutes
                    < cacheLastMinutes(caches[a]) - (CacheWindowMinutes - 1)
              /\ resp'.source = "disk"
              /\ resp'.events
                    = getEventsFromDisk(store, a, resp'.startMinutes, now).events]_vars

\* A query without the parameter has been answered from the store for an
\* application whose cache has advanced, is up to date and holds an event.
C38_Witness ==
    /\ resp.kind = "events"
    /\ resp.status = 200
    /\ resp.source = "disk"
    /\ resp.startMinutes = toMinutesSinceEpoch(now) - CacheWindowMinutes
    /\ HasCache(resp.app)
    /\ resp.app \in advanced
    /\ UpToDate(caches[resp.app])
    /\ Held(caches[resp.app]) # {}

====
